---- MODULE Spec2Model ----
(***************************************************************************)
(* Battleships (RSW-lab/Battleships): the game state machine of the two    *)
(* App components (placement, attack resolution, AI targeting, turn        *)
(* control, reset) with their delayed callbacks.                           *)
(*                                                                         *)
(* app = 1 is the App component with the 'title' phase                     *)
(*         (src/src/components/PlacementConsole.tsx lines 1370-2296),      *)
(* app = 2 is the App component without it (lines 2598-3356).              *)
(*                                                                         *)
(* A setTimeout/await callback is one entry of `timers`; the entries are   *)
(* kept in scheduling order, and an entry may run only when every entry    *)
(* scheduled before it has a strictly larger delay (a timer scheduled      *)
(* later with an equal or larger delay is due later).  Elapsed time is not *)
(* modelled otherwise, so every interleaving that the delays do not rule   *)
(* out is admitted.  User input may arrive between any two callbacks.      *)
(***************************************************************************)
EXTENDS Integers, Sequences, FiniteSets, TLC

\* The board is BOARD_SIZE x BOARD_SIZE (15 in the source, scaled down).
BOARD_SIZE == 3

\* The constant SHIPS of the source.
SourceShips ==
    << [id |-> 1, size |-> 14, width |-> 2, length |-> 7],
       [id |-> 2, size |-> 7, width |-> 1, length |-> 7],
       [id |-> 3, size |-> 5, width |-> 1, length |-> 5],
       [id |-> 4, size |-> 4, width |-> 1, length |-> 4],
       [id |-> 5, size |-> 5, width |-> 1, length |-> 5],
       [id |-> 6, size |-> 4, width |-> 1, length |-> 4],
       [id |-> 7, size |-> 2, width |-> 1, length |-> 2] >>

\* The ships a fleet takes from the roster (7 in the source, every one of
\* them): MaxFleet from its end in the games of several ships,
\* MaxCarrierFleet from its head, MaxPatrolFleet from its end.
MaxFleet == 2
MaxCarrierFleet == 1
MaxPatrolFleet == 1

\* A ship of the source on the scaled board: no longer than the board is
\* wide, its size the number of cells it covers (as for every ship of the
\* source).
Scaled(ship) ==
    LET length == IF ship.length > BOARD_SIZE THEN BOARD_SIZE ELSE ship.length
    IN  [id |-> ship.id, size |-> ship.width * length, width |-> ship.width, length |-> length]

\* The first n ships of the roster and its last n ships, scaled; with n the
\* length of the roster either is the whole of it.
FirstShips(n) == [i \in 1 .. n |-> Scaled(SourceShips[i])]
LastShips(n) == [i \in 1 .. n |-> Scaled(SourceShips[Len(SourceShips) - n + i])]

\* The 7 ships of the source do not fit the scaled board together, so the
\* game is explored with fleets cut from the roster by the bounds above: its
\* last MaxFleet ships (the Rescue and the Patrol: a fleet of several ships,
\* in which a sunk ship leaves the game going), in games of a few shots
\* under "rescue" and in games played to the end under "convoy"; its first
\* MaxCarrierFleet ships (the 2-wide Carrier: a ship more than one cell wide
\* is what puts one cell into the AI target queue twice, and canPlaceShip
\* leaves no room for a second ship beside it on the scaled board), in short
\* games under "carrier" and in long ones under "duel"; and its last
\* MaxPatrolFleet ships (the Patrol).
Rosters ==
    [carrier |-> FirstShips(MaxCarrierFleet),
     duel    |-> FirstShips(MaxCarrierFleet),
     patrol  |-> LastShips(MaxPatrolFleet),
     rescue  |-> LastShips(MaxFleet),
     convoy  |-> LastShips(MaxFleet)]

\* Bounds of the exploration: the resets of a run, the clicks on the title
\* screen, and the shots fired with the Patrol alone, with the Carrier in a
\* short game, with the Carrier in a long game (and how many of them the
\* player fires in one game), and with the fleet of several ships in a
\* short game and in a long one.
MaxResets == 1
MaxTitleClicks == 2
MaxShots == 5
MaxCarrierShots == 2
MaxDuelShots == 9
MaxDuelAttacks == 1
MaxRescueShots == 3
MaxConvoyShots == 11
MaxProbeCells == 2

\* The attempts placeAIShips makes per ship (1000 in the code).
MaxAttempts == 3

\* setTimeout delays of the source, in milliseconds.
MissileDelay == 600
AiThinkDelay == 1000
AnimDelay == 1000
TitleDelay == 700
TurnDelay == 1500

VARIABLES
    app,               \* which App component runs: 1 or 2 (0: a PlacementConsole alone)
    fleet,             \* which scaled roster the constant SHIPS holds
    gamePhase,         \* useState gamePhase
    playerBoard,       \* useState playerBoard (playerBoardRef.current follows it)
    aiBoard,           \* useState aiBoard
    playerShips,       \* useState playerShips (playerShipsRef.current follows it)
    shipHeap,          \* the AI Ship objects of each initializeGame call
    aiShipsGen,        \* which allocation the aiShips state array points to
    currentShipIndex,  \* useState currentShipIndex (0-based as in the source)
    shipOrientation,   \* useState shipOrientation
    isPlayerTurn,      \* useState isPlayerTurn
    winner,            \* useState winner ("none" for null)
    attackInProgress,  \* useState attackInProgress
    aiTargetQueue,     \* aiTargetQueueRef.current
    lastHit,           \* lastHitRef.current (<<>> for null)
    timers,            \* pending setTimeout / await callbacks, in scheduling order
    frozen,            \* a callback is spinning in a do-while loop that cannot end
    resets,            \* number of resetGame calls so far
    shots,             \* number of shots fired so far (accepted attacks + AI selections)
    lastShot,          \* history: who fired the shot resolved last, its outcome, and
                       \* the queued candidates the resolution dropped
    probe,             \* arguments and result of a placement function applied on its own
    console,           \* the state of a PlacementConsole component
    previewCells       \* useState previewCells of App

vars == << app, fleet, gamePhase, playerBoard, aiBoard, playerShips, shipHeap, aiShipsGen,
           currentShipIndex, shipOrientation, isPlayerTurn, winner, attackInProgress,
           aiTargetQueue, lastHit, timers, frozen, resets, shots, lastShot, probe, console,
           previewCells >>

----------------------------------------------------------------------------
\* Data

SHIPS == Rosters[fleet]

\* The shots explored with the roster in play.
ShotBound ==
    IF fleet = "carrier" THEN MaxCarrierShots
    ELSE IF fleet = "duel" THEN MaxDuelShots
    ELSE IF fleet = "rescue" THEN MaxRescueShots
    ELSE IF fleet = "convoy" THEN MaxConvoyShots
    ELSE MaxShots

\* The attacks of the player explored in one game with the roster in play.
AttackBound == IF fleet = "duel" THEN MaxDuelAttacks ELSE ShotBound

Coord == 0 .. (BOARD_SIZE - 1)
Cells == Coord \X Coord
Orientation == {"horizontal", "vertical"}
Gens == 0 .. MaxResets
ShipIdx == 1 .. Len(SHIPS)

EmptyCell == [state |-> "empty", shipId |-> 0, animation |-> "none"]
EmptyBoard == [r \in Coord |-> [c \in Coord |-> EmptyCell]]
FreshShips == [i \in ShipIdx |-> [hits |-> 0, sunk |-> FALSE]]
NoShot == [by |-> "none", outcome |-> "none", dropped |-> << >>]
NoProbe == [fn |-> "none"]

\* PlacementConsole's useState initial values (shipId 0 stands for null).
NoDrag == [shipId |-> 0, orientation |-> "horizontal"]
FreshConsole ==
    [board |-> EmptyBoard, placements |-> << >>, dragState |-> NoDrag, previewCells |-> {},
     selectedShipId |-> 0, completions |-> 0]

aiShips == shipHeap[aiShipsGen]

Resolved(board, r, c) == board[r][c].state = "hit" \/ board[r][c].state = "miss"

AllSunk(ships) == \A i \in ShipIdx : ships[i].sunk

\* findIndex(s => s.id === cell.shipId); 0 stands for -1
FindIndex(shipId) ==
    IF \E i \in ShipIdx : SHIPS[i].id = shipId
    THEN CHOOSE i \in ShipIdx : SHIPS[i].id = shipId
    ELSE 0

\* ships[i].hits++ ; if (hits === size) sunk = true
HitShip(ships, i) ==
    IF i = 0 THEN ships
    ELSE [ships EXCEPT ![i] = [hits |-> @.hits + 1,
                               sunk |-> IF @.hits + 1 = SHIPS[i].size THEN TRUE ELSE @.sunk]]

SetCell(board, r, c, cell) == [board EXCEPT ![r][c] = cell]

----------------------------------------------------------------------------
\* Placement

\* canPlaceShip with the overlap test alone, without the scan of the
\* surrounding cells.
canPlaceShipOverlapOnly(board, row, col, width, length, orientation) ==
    LET footprintWidth == IF orientation = "horizontal" THEN length ELSE width
        footprintHeight == IF orientation = "horizontal" THEN width ELSE length
    IN  /\ ~(col + footprintWidth > BOARD_SIZE \/ row + footprintHeight > BOARD_SIZE)
        /\ \A r \in row .. (row + footprintHeight - 1), c \in col .. (col + footprintWidth - 1) :
               board[r][c].state # "ship"

canPlaceShip(board, row, col, width, length, orientation) ==
    LET footprintWidth == IF orientation = "horizontal" THEN length ELSE width
        footprintHeight == IF orientation = "horizontal" THEN width ELSE length
    IN  /\ ~(col + footprintWidth > BOARD_SIZE \/ row + footprintHeight > BOARD_SIZE)
        /\ \A r \in row .. (row + footprintHeight - 1), c \in col .. (col + footprintWidth - 1) :
               board[r][c].state # "ship"
        /\ \A r \in (row - 1) .. (row + footprintHeight), c \in (col - 1) .. (col + footprintWidth) :
               (r >= 0 /\ r < BOARD_SIZE /\ c >= 0 /\ c < BOARD_SIZE)
                   => board[r][c].state # "ship"

\* placeShip writing the footprint on a fresh board instead of a copy of its
\* argument.
placeShipOnFreshBoard(board, row, col, width, length, orientation, shipId) ==
    LET footprintWidth == IF orientation = "horizontal" THEN length ELSE width
        footprintHeight == IF orientation = "horizontal" THEN width ELSE length
    IN  [r \in Coord |-> [c \in Coord |->
            IF r >= row /\ r < row + footprintHeight /\ c >= col /\ c < col + footprintWidth
            THEN [state |-> "ship", shipId |-> shipId, animation |-> "none"]
            ELSE EmptyCell]]

placeShip(board, row, col, width, length, orientation, shipId) ==
    LET footprintWidth == IF orientation = "horizontal" THEN length ELSE width
        footprintHeight == IF orientation = "horizontal" THEN width ELSE length
    IN  [r \in Coord |-> [c \in Coord |->
            IF r >= row /\ r < row + footprintHeight /\ c >= col /\ c < col + footprintWidth
            THEN [state |-> "ship", shipId |-> shipId, animation |-> "none"]
            ELSE board[r][c]]]

\* The boards placeAIShips can return: for each ship in roster order, either
\* one of the random attempts succeeds (any start cell and orientation that
\* canPlaceShip accepts), or all 1000 attempts fail and the ship is skipped.
RECURSIVE PlaceAIShipsFrom(_, _)
PlaceAIShipsFrom(board, i) ==
    IF i > Len(SHIPS) THEN {board}
    ELSE LET ship == SHIPS[i]
             placed == { placeShip(board, x[1], x[2], ship.width, ship.length, x[3], ship.id) :
                           x \in { y \in { <<z[1], z[2], o>> : z \in Cells, o \in Orientation } :
                                     canPlaceShip(board, y[1], y[2], ship.width, ship.length, y[3]) } }
         IN  UNION { PlaceAIShipsFrom(b, i + 1) : b \in placed \cup {board} }

placeAIShips == PlaceAIShipsFrom(EmptyBoard, 1)

\* Math.min(...xs) and Math.max(...xs) of a non-empty collection
MinOf(xs) == CHOOSE m \in xs : \A n \in xs : m <= n
MaxOf(xs) == CHOOSE m \in xs : \A n \in xs : m >= n

\* The cells of a board that carry the ship's id.
CoordsOf(board, ship) == { x \in Cells : board[x[1]][x[2]].shipId = ship.id }

\* The orientation test computePlacements had before bounding boxes were
\* compared: horizontal when all cells lie in one row.
PlacementOfBySingleRow(board, ship) ==
    LET coords == CoordsOf(board, ship)
        rows == { x[1] : x \in coords }
        cols == { x[2] : x \in coords }
    IN  [shipId |-> ship.id, size |-> ship.size, width |-> ship.width, length |-> ship.length,
         startRow |-> MinOf(rows), startCol |-> MinOf(cols),
         orientation |-> IF Cardinality(rows) = 1 THEN "horizontal" ELSE "vertical"]

\* The Placement computePlacements pushes for a ship that has cells on the board.
PlacementOf(board, ship) ==
    LET coords == CoordsOf(board, ship)
        rows == { x[1] : x \in coords }
        cols == { x[2] : x \in coords }
        minRow == MinOf(rows)
        maxRow == MaxOf(rows)
        minCol == MinOf(cols)
        maxCol == MaxOf(cols)
        heightSpan == maxRow - minRow + 1
        widthSpan == maxCol - minCol + 1
    IN  [shipId |-> ship.id, size |-> ship.size, width |-> ship.width, length |-> ship.length,
         startRow |-> minRow, startCol |-> minCol,
         orientation |-> IF widthSpan > heightSpan THEN "horizontal" ELSE "vertical"]

RECURSIVE PlacementsFrom(_, _, _)
PlacementsFrom(board, ships, i) ==
    IF i > Len(ships) THEN << >>
    ELSE (IF CoordsOf(board, ships[i]) = {} THEN << >> ELSE << PlacementOf(board, ships[i]) >>)
             \o PlacementsFrom(board, ships, i + 1)

computePlacements(board, ships) == PlacementsFrom(board, ships, 1)

----------------------------------------------------------------------------
\* Timers

Timer(kind, delay, row, col, board, gen) ==
    [kind |-> kind, delay |-> delay, row |-> row, col |-> col, board |-> board, gen |-> gen]

\* A callback without captured data.
PlainTimer(kind, delay) == Timer(kind, delay, 0, 0, EmptyBoard, 0)

RemoveAt(seq, i) == SubSeq(seq, 1, i - 1) \o SubSeq(seq, i + 1, Len(seq))

\* The timer at position i is due no later than every timer scheduled before it.
MayRun(i) == \A j \in 1 .. (i - 1) : timers[j].delay > timers[i].delay

\* Ship objects that neither the aiShips state nor a pending handleAttack
\* continuation can reach are garbage.
Collect(heap, gen, tms) ==
    [g \in Gens |->
        IF g = gen \/ \E i \in 1 .. Len(tms) : tms[i].kind = "attackResolve" /\ tms[i].gen = g
        THEN heap[g] ELSE FreshShips]

----------------------------------------------------------------------------
\* AI targeting

Unresolved(board) == { x \in Cells : ~Resolved(board, x[1], x[2]) }

\* The four neighbours filtered on the bounds alone, whatever their state.
AdjacentCellsInBounds(board, row, col) ==
    LET InBounds(x) ==
            /\ x[1] >= 0 /\ x[1] < BOARD_SIZE
            /\ x[2] >= 0 /\ x[2] < BOARD_SIZE
    IN  SelectSeq(<< <<row - 1, col>>, <<row + 1, col>>, <<row, col - 1>>, <<row, col + 1>> >>,
                  InBounds)

\* The unresolved neighbours above and below only.
AdjacentCellsVertical(board, row, col) ==
    LET InBoundsUnresolved(x) ==
            /\ x[1] >= 0 /\ x[1] < BOARD_SIZE
            /\ board[x[1]][x[2]].state # "hit"
            /\ board[x[1]][x[2]].state # "miss"
    IN  SelectSeq(<< <<row - 1, col>>, <<row + 1, col>> >>, InBoundsUnresolved)

\* [up, down, left, right].filter(in bounds and neither hit nor miss)
AdjacentCells(board, row, col) ==
    LET InBoundsUnresolved(x) ==
            /\ x[1] >= 0 /\ x[1] < BOARD_SIZE
            /\ x[2] >= 0 /\ x[2] < BOARD_SIZE
            /\ board[x[1]][x[2]].state # "hit"
            /\ board[x[1]][x[2]].state # "miss"
    IN  SelectSeq(<< <<row - 1, col>>, <<row + 1, col>>, <<row, col - 1>>, <<row, col + 1>> >>,
                  InBoundsUnresolved)

Range(seq) == { seq[i] : i \in 1 .. Len(seq) }

Choice(target, queue, last) == [target |-> target, queue |-> queue, lastHit |-> last]

\* do { random cell } while (cell is hit or miss): any unresolved cell; with
\* none left the loop never ends (no choice).
RandomSearch(board, queue, last) ==
    { Choice(x, queue, last) : x \in Unresolved(board) }

\* Follow-up from lastHitRef, then random search.
FollowUp(board, queue, last) ==
    IF last # << >>
    THEN LET adjacentCells == AdjacentCells(board, last[1], last[2])
         IN  IF Len(adjacentCells) > 0
             THEN { Choice(x, queue, last) : x \in Range(adjacentCells) }
             ELSE RandomSearch(board, queue, << >>)
    ELSE RandomSearch(board, queue, last)

\* app 1: the head of the queue is the target, whatever its state.
SelectTarget1(board, queue, last) ==
    IF Len(queue) > 0
    THEN { Choice(Head(queue), Tail(queue), last) }
    ELSE FollowUp(board, queue, last)

\* app 2: pop until an unresolved candidate is found; if the queue runs out,
\* random search.
SelectTarget2(board, queue, last) ==
    IF Len(queue) > 0
    THEN LET found == { k \in 1 .. Len(queue) : ~Resolved(board, queue[k][1], queue[k][2]) }
         IN  IF found # {}
             THEN LET k == CHOOSE k \in found : \A m \in found : k <= m
                  IN  { Choice(queue[k], SubSeq(queue, k + 1, Len(queue)), last) }
             ELSE RandomSearch(board, << >>, last)
    ELSE FollowUp(board, queue, last)

SelectTarget(board, queue, last) ==
    IF app = 1 THEN SelectTarget1(board, queue, last) ELSE SelectTarget2(board, queue, last)

\* What the selection has written when it enters a random loop that cannot
\* end: app 2 has popped the whole queue (and has not looked at lastHitRef);
\* with an empty queue the follow-up branch has cleared lastHitRef.
SpinState(queue, last) ==
    IF Len(queue) > 0
    THEN [queue |-> << >>, lastHit |-> last]
    ELSE [queue |-> queue, lastHit |-> << >>]

----------------------------------------------------------------------------
\* Initial state: the component is mounted and initializeGame has run.

InitWith(rosters) ==
    /\ app \in {1, 2}
    /\ fleet \in rosters
    /\ gamePhase = IF app = 1 THEN "title" ELSE "instructions"
    /\ playerBoard = EmptyBoard
    /\ aiBoard = EmptyBoard
    /\ playerShips = FreshShips
    /\ shipHeap = [g \in Gens |-> FreshShips]
    /\ aiShipsGen = 0
    /\ currentShipIndex = 0
    /\ shipOrientation = "horizontal"
    /\ isPlayerTurn = TRUE
    /\ winner = "none"
    /\ attackInProgress = FALSE
    /\ aiTargetQueue = << >>
    /\ lastHit = << >>
    /\ timers = << >>
    /\ frozen = FALSE
    /\ resets = 0
    /\ shots = 0
    /\ lastShot = NoShot
    /\ previewCells = << >>

----------------------------------------------------------------------------
\* User input outside the battle

\* The title screen's callbacks (onStart) that have not run yet.
TitleClicksPending == Cardinality({ i \in 1 .. Len(timers) : timers[i].kind = "titleStart" })

\* TitleScreen.handleStart (a click or a key on the title screen): the
\* screen fades and onStart is called 700 ms later; the screen stays mounted
\* until then.
handleStart ==
    /\ ~frozen
    /\ gamePhase = "title"
    /\ TitleClicksPending < MaxTitleClicks
    /\ timers' = Append(timers, PlainTimer("titleStart", TitleDelay))
    /\ UNCHANGED << app, fleet, probe, console, previewCells, playerBoard, aiBoard, playerShips, shipHeap, aiShipsGen,
                    currentShipIndex, shipOrientation, isPlayerTurn, winner, attackInProgress,
                    aiTargetQueue, lastHit, frozen, resets, shots, lastShot, gamePhase >>

\* onStart: setGamePhase('instructions'), whatever the phase is by now.
TitleStart(i) ==
    /\ ~frozen
    /\ timers[i].kind = "titleStart"
    /\ MayRun(i)
    /\ gamePhase' = "instructions"
    /\ timers' = RemoveAt(timers, i)
    /\ UNCHANGED << app, fleet, probe, console, previewCells, playerBoard, aiBoard, playerShips, shipHeap, aiShipsGen,
                    currentShipIndex, shipOrientation, isPlayerTurn, winner, attackInProgress,
                    aiTargetQueue, lastHit, frozen, resets, shots, lastShot >>

startGame ==
    /\ ~frozen
    /\ gamePhase = "instructions"
    /\ gamePhase' = "placement"
    /\ UNCHANGED << app, fleet, probe, console, previewCells, playerBoard, aiBoard, playerShips, shipHeap, aiShipsGen,
                    currentShipIndex, shipOrientation, isPlayerTurn, winner, attackInProgress,
                    aiTargetQueue, lastHit, timers, frozen, resets, shots, lastShot >>

\* key 'r' during placement
handleKeyPress ==
    /\ ~frozen
    /\ gamePhase = "placement"
    /\ shipOrientation' = IF shipOrientation = "horizontal" THEN "vertical" ELSE "horizontal"
    /\ UNCHANGED << app, fleet, probe, console, previewCells, gamePhase, playerBoard, aiBoard, playerShips, shipHeap, aiShipsGen,
                    currentShipIndex, isPlayerTurn, winner, attackInProgress,
                    aiTargetQueue, lastHit, timers, frozen, resets, shots, lastShot >>

\* handlePlayerPlacement without the canPlaceShip test: every click commits.
handlePlayerPlacementUnchecked(row, col) ==
    /\ ~frozen
    /\ gamePhase = "placement"
    /\ IF currentShipIndex >= Len(SHIPS)
       THEN UNCHANGED vars
       ELSE LET ship == SHIPS[currentShipIndex + 1]
            IN  /\ playerBoard' = placeShip(playerBoard, row, col, ship.width, ship.length,
                                            shipOrientation, ship.id)
                /\ IF currentShipIndex = Len(SHIPS) - 1
                   THEN /\ aiBoard' \in placeAIShips
                        /\ gamePhase' = "battle"
                        /\ UNCHANGED currentShipIndex
                   ELSE /\ currentShipIndex' = currentShipIndex + 1
                        /\ UNCHANGED << aiBoard, gamePhase >>
                /\ UNCHANGED << app, fleet, probe, console, previewCells, playerShips, shipHeap, aiShipsGen,
                                shipOrientation, isPlayerTurn, winner, attackInProgress,
                                aiTargetQueue, lastHit, timers, frozen, resets, shots, lastShot >>

\* A click on a cell of the player's board during placement.
handlePlayerPlacement(row, col) ==
    /\ ~frozen
    /\ gamePhase = "placement"
    /\ IF currentShipIndex >= Len(SHIPS)
       THEN UNCHANGED vars
       ELSE LET ship == SHIPS[currentShipIndex + 1]
            IN  IF canPlaceShip(playerBoard, row, col, ship.width, ship.length, shipOrientation)
                THEN /\ playerBoard' = placeShip(playerBoard, row, col, ship.width, ship.length,
                                                 shipOrientation, ship.id)
                     /\ IF currentShipIndex = Len(SHIPS) - 1
                        THEN /\ aiBoard' \in placeAIShips
                             /\ gamePhase' = "battle"
                             /\ UNCHANGED currentShipIndex
                        ELSE /\ currentShipIndex' = currentShipIndex + 1
                             /\ UNCHANGED << aiBoard, gamePhase >>
                     /\ UNCHANGED << app, fleet, probe, console, previewCells, playerShips, shipHeap, aiShipsGen, shipOrientation,
                                     isPlayerTurn, winner, attackInProgress, aiTargetQueue,
                                     lastHit, timers, frozen, resets, shots, lastShot >>
                ELSE UNCHANGED vars

\* The cells of a footprint in the order of the two nested loops: row by
\* row, each row from left to right.
FootprintCells(row, col, height, width) ==
    [k \in 1 .. (height * width) |-> << row + ((k - 1) \div width), col + ((k - 1) % width) >>]

\* A hover that commits the placement it previews.
handleMouseEnterPlacing(row, col) ==
    /\ ~frozen
    /\ app # 0
    /\ handlePlayerPlacement(row, col)

\* onMouseEnter of a cell of the player's board: preview the footprint of the
\* ship to place next if canPlaceShip accepts it, else no preview.
handleMouseEnter(row, col) ==
    /\ ~frozen
    /\ app # 0
    /\ IF gamePhase # "placement" \/ currentShipIndex >= Len(SHIPS)
       THEN UNCHANGED vars
       ELSE LET ship == SHIPS[currentShipIndex + 1]
                footprintWidth == IF shipOrientation = "horizontal" THEN ship.length
                                  ELSE ship.width
                footprintHeight == IF shipOrientation = "horizontal" THEN ship.width
                                   ELSE ship.length
                cells == IF canPlaceShip(playerBoard, row, col, ship.width, ship.length,
                                         shipOrientation)
                         THEN FootprintCells(row, col, footprintHeight, footprintWidth)
                         ELSE << >>
            IN  /\ previewCells' = cells
                /\ UNCHANGED << app, fleet, probe, console, gamePhase, playerBoard, aiBoard,
                                playerShips, shipHeap, aiShipsGen, currentShipIndex,
                                shipOrientation, isPlayerTurn, winner, attackInProgress,
                                aiTargetQueue, lastHit, timers, frozen, resets, shots,
                                lastShot >>

\* onMouseLeave: setPreviewCells([])
handleMouseLeave ==
    /\ ~frozen
    /\ app # 0
    /\ previewCells' = << >>
    /\ UNCHANGED << app, fleet, probe, console, gamePhase, playerBoard, aiBoard,
                                playerShips, shipHeap, aiShipsGen, currentShipIndex,
                                shipOrientation, isPlayerTurn, winner, attackInProgress,
                                aiTargetQueue, lastHit, timers, frozen, resets, shots,
                                lastShot >>

\* resetGame with an initializeGame that leaves the AI's target queue and
\* last hit as they are.
resetGameKeepingQueue ==
    /\ ~frozen
    /\ gamePhase \in {"placement", "battle", "gameOver"}
    /\ resets < MaxResets
    /\ resets' = resets + 1
    /\ playerBoard' = EmptyBoard
    /\ aiBoard' = EmptyBoard
    /\ playerShips' = FreshShips
    /\ aiShipsGen' = resets + 1
    /\ shipHeap' = Collect([shipHeap EXCEPT ![resets + 1] = FreshShips], resets + 1, timers)
    /\ currentShipIndex' = 0
    /\ isPlayerTurn' = TRUE
    /\ winner' = "none"
    /\ gamePhase' = "instructions"
    /\ lastShot' = NoShot
    /\ UNCHANGED << app, fleet, probe, console, previewCells, shipOrientation, attackInProgress, timers,
                    frozen, shots, aiTargetQueue, lastHit >>

\* initializeGame() and setGamePhase('instructions'); attackInProgress,
\* shipOrientation and the pending timers are not touched.
resetGame ==
    /\ ~frozen
    /\ gamePhase \in {"placement", "battle", "gameOver"}
    /\ resets < MaxResets
    /\ resets' = resets + 1
    /\ playerBoard' = EmptyBoard
    /\ aiBoard' = EmptyBoard
    /\ playerShips' = FreshShips
    /\ aiShipsGen' = resets + 1
    /\ shipHeap' = Collect([shipHeap EXCEPT ![resets + 1] = FreshShips], resets + 1, timers)
    /\ currentShipIndex' = 0
    /\ isPlayerTurn' = TRUE
    /\ winner' = "none"
    /\ aiTargetQueue' = << >>
    /\ lastHit' = << >>
    /\ gamePhase' = "instructions"
    /\ lastShot' = NoShot
    /\ UNCHANGED << app, fleet, probe, console, previewCells, shipOrientation, attackInProgress, timers, frozen, shots >>

----------------------------------------------------------------------------
\* The player's attack

\* The guard without its in-flight test (the code before attackInProgress
\* was introduced).
AttackRejectedIgnoringInFlight(row, col) ==
    \/ ~isPlayerTurn
    \/ gamePhase # "battle"
    \/ aiBoard[row][col].state = "hit"
    \/ aiBoard[row][col].state = "miss"

\* The guard without its test of the target cell.
AttackRejectedIgnoringResolved(row, col) ==
    \/ ~isPlayerTurn
    \/ gamePhase # "battle"
    \/ attackInProgress

\* The guard of handleAttack: the request is ignored.
AttackRejected(row, col) ==
    \/ ~isPlayerTurn
    \/ gamePhase # "battle"
    \/ aiBoard[row][col].state = "hit"
    \/ aiBoard[row][col].state = "miss"
    \/ attackInProgress

\* The attacks of the game in play so far: the cells of the AI board that are
\* resolved and the missiles in flight.
Attacks ==
    Cardinality({ x \in Cells : Resolved(aiBoard, x[1], x[2]) })
    + Cardinality({ i \in 1 .. Len(timers) : timers[i].kind = "attackResolve" })

\* handleAttack up to its await: the continuation captures aiBoard and aiShips.
handleAttack(row, col) ==
    /\ ~frozen
    /\ IF AttackRejected(row, col)
       THEN UNCHANGED vars
       ELSE /\ shots < ShotBound
            /\ Attacks < AttackBound
            /\ shots' = shots + 1
            /\ attackInProgress' = TRUE
            /\ timers' = Append(timers, Timer("attackResolve", MissileDelay, row, col,
                                              aiBoard, aiShipsGen))
            /\ UNCHANGED << app, fleet, probe, console, previewCells, gamePhase, playerBoard, aiBoard, playerShips, shipHeap,
                            aiShipsGen, currentShipIndex, shipOrientation, isPlayerTurn,
                            winner, aiTargetQueue, lastHit, frozen, resets, lastShot >>

\* What the resolution schedules after a hit that does not end the game.
AfterPlayerHit == IF app = 1 THEN "attackEndHit" ELSE "attackToAI"

\* handleAttack after the await: resolve the shot on the captured board and ships.
AttackResolve(i) ==
    LET t == timers[i]
        cell == t.board[t.row][t.col]
        isHit == cell.state = "ship"
        newCell == IF isHit
                   THEN [cell EXCEPT !.state = "hit",
                                     !.animation = IF app = 2 THEN "hit" ELSE @]
                   ELSE [cell EXCEPT !.state = "miss",
                                     !.animation = IF app = 2 THEN "miss" ELSE @]
        newBoard == SetCell(t.board, t.row, t.col, newCell)
        updatedAiShips == IF isHit THEN HitShip(shipHeap[t.gen], FindIndex(cell.shipId))
                          ELSE shipHeap[t.gen]
        allSunk == AllSunk(updatedAiShips)
        anim == IF app = 2
                THEN << Timer("animClearAi", AnimDelay, t.row, t.col, newBoard, 0) >>
                ELSE << >>
        next == IF isHit /\ ~allSunk THEN << PlainTimer(AfterPlayerHit, TurnDelay) >>
                ELSE IF ~allSunk THEN << PlainTimer("attackToAI", TurnDelay) >>
                ELSE << >>
    IN  /\ ~frozen
        /\ t.kind = "attackResolve"
        /\ MayRun(i)
        /\ aiBoard' = newBoard
        /\ timers' = RemoveAt(timers, i) \o anim \o next
        /\ aiShipsGen' = IF isHit THEN t.gen ELSE aiShipsGen
        /\ shipHeap' = Collect([shipHeap EXCEPT ![t.gen] = updatedAiShips], aiShipsGen', timers')
        /\ winner' = IF isHit /\ allSunk THEN "player" ELSE winner
        /\ gamePhase' = IF isHit /\ allSunk THEN "gameOver" ELSE gamePhase
        /\ attackInProgress' = IF allSunk THEN FALSE ELSE attackInProgress
        /\ lastShot' = [by |-> "player",
                        outcome |-> IF isHit THEN (IF allSunk THEN "win" ELSE "hit") ELSE "miss",
                        dropped |-> << >>]
        /\ UNCHANGED << app, fleet, probe, console, previewCells, playerBoard, playerShips, currentShipIndex, shipOrientation,
                        isPlayerTurn, aiTargetQueue, lastHit, frozen, resets, shots >>

\* The 1500 ms callback after a hit if it left attackInProgress set.
AttackEndHitKeepingInProgress(i) ==
    /\ ~frozen
    /\ timers[i].kind = "attackEndHit"
    /\ MayRun(i)
    /\ timers' = RemoveAt(timers, i)
    /\ UNCHANGED << app, fleet, probe, console, previewCells, gamePhase, playerBoard, aiBoard, playerShips, shipHeap, aiShipsGen,
                    currentShipIndex, shipOrientation, isPlayerTurn, winner, attackInProgress,
                    aiTargetQueue, lastHit, frozen, resets, shots, lastShot >>

\* app 1, 1500 ms after a hit: setAttackInProgress(false)
AttackEndHit(i) ==
    /\ ~frozen
    /\ timers[i].kind = "attackEndHit"
    /\ MayRun(i)
    /\ attackInProgress' = FALSE
    /\ timers' = RemoveAt(timers, i)
    /\ UNCHANGED << app, fleet, probe, console, previewCells, gamePhase, playerBoard, aiBoard, playerShips, shipHeap, aiShipsGen,
                    currentShipIndex, shipOrientation, isPlayerTurn, winner,
                    aiTargetQueue, lastHit, frozen, resets, shots, lastShot >>

\* 1500 ms after the resolution: hand the turn to the AI and call aiTurn().
AttackToAI(i) ==
    /\ ~frozen
    /\ timers[i].kind = "attackToAI"
    /\ MayRun(i)
    /\ attackInProgress' = FALSE
    /\ isPlayerTurn' = FALSE
    /\ timers' = Append(RemoveAt(timers, i), PlainTimer("aiSelect", AiThinkDelay))
    /\ UNCHANGED << app, fleet, probe, console, previewCells, gamePhase, playerBoard, aiBoard, playerShips, shipHeap, aiShipsGen,
                    currentShipIndex, shipOrientation, winner,
                    aiTargetQueue, lastHit, frozen, resets, shots, lastShot >>

\* The animation-clear timer of handleAttack (app 2): writes back its snapshot.
AnimClearAi(i) ==
    LET t == timers[i]
    IN  /\ ~frozen
        /\ t.kind = "animClearAi"
        /\ MayRun(i)
        /\ aiBoard' = SetCell(t.board, t.row, t.col,
                              [t.board[t.row][t.col] EXCEPT !.animation = "none"])
        /\ timers' = RemoveAt(timers, i)
        /\ UNCHANGED << app, fleet, probe, console, previewCells, gamePhase, playerBoard, playerShips, shipHeap, aiShipsGen,
                        currentShipIndex, shipOrientation, isPlayerTurn, winner,
                        attackInProgress, aiTargetQueue, lastHit, frozen, resets, shots,
                        lastShot >>

----------------------------------------------------------------------------
\* The AI's turn

\* aiTurn, outer callback: choose the target on playerBoardRef.current.
AiSelect(i) ==
    LET choices == SelectTarget(playerBoard, aiTargetQueue, lastHit)
    IN  /\ ~frozen
        /\ timers[i].kind = "aiSelect"
        /\ MayRun(i)
        /\ IF choices = {} /\ Unresolved(playerBoard) = {}
           THEN /\ frozen' = TRUE
                /\ timers' = RemoveAt(timers, i)
                /\ aiTargetQueue' = SpinState(aiTargetQueue, lastHit).queue
                /\ lastHit' = SpinState(aiTargetQueue, lastHit).lastHit
                /\ UNCHANGED shots
           ELSE /\ shots < ShotBound
                /\ \E ch \in choices :
                     /\ aiTargetQueue' = ch.queue
                     /\ lastHit' = ch.lastHit
                     /\ timers' = Append(RemoveAt(timers, i),
                                         Timer("aiResolve", MissileDelay, ch.target[1],
                                               ch.target[2], playerBoard, 0))
                /\ shots' = shots + 1
                /\ UNCHANGED frozen
        /\ UNCHANGED << app, fleet, probe, console, previewCells, gamePhase, playerBoard, aiBoard, playerShips, shipHeap, aiShipsGen,
                        currentShipIndex, shipOrientation, isPlayerTurn, winner,
                        attackInProgress, resets, lastShot >>

\* The cell the AI's resolution writes when the target is not a ship cell:
\* app 1 writes miss whatever the cell was, app 2 only on an empty cell.
AiMissCell(cell) ==
    IF app = 1 THEN [cell EXCEPT !.state = "miss"]
    ELSE IF cell.state = "empty" THEN [cell EXCEPT !.state = "miss", !.animation = "miss"]
    ELSE cell

\* The cell x is orthogonally next to a cell that carries the ship's id.
NextToShip(board, shipId, x) ==
    \E y \in Cells :
        /\ board[y[1]][y[2]].shipId = shipId
        /\ \/ (y[1] = x[1] /\ (y[2] = x[2] + 1 \/ y[2] = x[2] - 1))
           \/ (y[2] = x[2] /\ (y[1] = x[1] + 1 \/ y[1] = x[1] - 1))

\* aiTurn's inner callback if a sunk ship took only its own leads with it:
\* the candidates next to the sunk ship leave the queue, the others stay.
AiResolveKeepingOtherLeads(i) ==
    LET t == timers[i]
        cell == t.board[t.row][t.col]
        isHit == cell.state = "ship"
        newCell == IF isHit
                   THEN [cell EXCEPT !.state = "hit",
                                     !.animation = IF app = 2 THEN "hit" ELSE @]
                   ELSE AiMissCell(cell)
        newBoard == SetCell(t.board, t.row, t.col, newCell)
        shipIndex == FindIndex(cell.shipId)
        updatedPlayerShips == IF isHit THEN HitShip(playerShips, shipIndex) ELSE playerShips
        sunkNow == /\ isHit
                   /\ shipIndex # 0
                   /\ updatedPlayerShips[shipIndex].hits = SHIPS[shipIndex].size
        allSunk == AllSunk(updatedPlayerShips)
        anim == IF app = 2
                THEN << Timer("animClearPlayer", AnimDelay, t.row, t.col, newBoard, 0) >>
                ELSE << >>
        next == IF newCell.state = "hit" /\ ~allSunk
                THEN << PlainTimer("aiSelect", AiThinkDelay) >>
                ELSE IF ~allSunk THEN << PlainTimer("aiDone", TurnDelay) >>
                ELSE << >>
    IN  /\ ~frozen
        /\ t.kind = "aiResolve"
        /\ MayRun(i)
        /\ playerBoard' = newBoard
        /\ playerShips' = updatedPlayerShips
        /\ lastHit' = IF isHit THEN (IF sunkNow THEN << >> ELSE << t.row, t.col >>) ELSE lastHit
        /\ aiTargetQueue' = IF isHit
                            THEN (IF sunkNow
                                  THEN SelectSeq(aiTargetQueue \o AdjacentCells(newBoard, t.row, t.col),
                                                 LAMBDA x : ~NextToShip(newBoard, cell.shipId, x))
                                  ELSE aiTargetQueue \o AdjacentCells(newBoard, t.row, t.col))
                            ELSE aiTargetQueue
        /\ winner' = IF isHit /\ allSunk THEN "ai" ELSE winner
        /\ gamePhase' = IF isHit /\ allSunk THEN "gameOver" ELSE gamePhase
        /\ timers' = RemoveAt(timers, i) \o anim \o next
        /\ lastShot' = [by |-> "ai",
                        outcome |-> IF isHit THEN (IF allSunk THEN "win" ELSE "hit")
                                    ELSE IF newCell.state = "miss" /\ (app = 1 \/ cell.state = "empty")
                                         THEN "miss" ELSE "none",
                        dropped |-> IF sunkNow THEN aiTargetQueue ELSE << >>]
        /\ UNCHANGED << app, fleet, probe, console, previewCells, aiBoard, shipHeap, aiShipsGen, currentShipIndex, shipOrientation,
                        isPlayerTurn, attackInProgress, frozen, resets, shots >>


\* aiTurn's inner callback if a sunk ship emptied the queue and left the last
\* hit recorded.
AiResolveKeepingLastHit(i) ==
    LET t == timers[i]
        cell == t.board[t.row][t.col]
        isHit == cell.state = "ship"
        newCell == IF isHit
                   THEN [cell EXCEPT !.state = "hit",
                                     !.animation = IF app = 2 THEN "hit" ELSE @]
                   ELSE AiMissCell(cell)
        newBoard == SetCell(t.board, t.row, t.col, newCell)
        shipIndex == FindIndex(cell.shipId)
        updatedPlayerShips == IF isHit THEN HitShip(playerShips, shipIndex) ELSE playerShips
        sunkNow == /\ isHit
                   /\ shipIndex # 0
                   /\ updatedPlayerShips[shipIndex].hits = SHIPS[shipIndex].size
        allSunk == AllSunk(updatedPlayerShips)
        anim == IF app = 2
                THEN << Timer("animClearPlayer", AnimDelay, t.row, t.col, newBoard, 0) >>
                ELSE << >>
        next == IF newCell.state = "hit" /\ ~allSunk
                THEN << PlainTimer("aiSelect", AiThinkDelay) >>
                ELSE IF ~allSunk THEN << PlainTimer("aiDone", TurnDelay) >>
                ELSE << >>
    IN  /\ ~frozen
        /\ t.kind = "aiResolve"
        /\ MayRun(i)
        /\ playerBoard' = newBoard
        /\ playerShips' = updatedPlayerShips
        /\ lastHit' = IF isHit THEN << t.row, t.col >> ELSE lastHit
        /\ aiTargetQueue' = IF isHit
                            THEN (IF sunkNow THEN << >>
                                  ELSE aiTargetQueue \o AdjacentCells(newBoard, t.row, t.col))
                            ELSE aiTargetQueue
        /\ winner' = IF isHit /\ allSunk THEN "ai" ELSE winner
        /\ gamePhase' = IF isHit /\ allSunk THEN "gameOver" ELSE gamePhase
        /\ timers' = RemoveAt(timers, i) \o anim \o next
        /\ lastShot' = [by |-> "ai",
                        outcome |-> IF isHit THEN (IF allSunk THEN "win" ELSE "hit")
                                    ELSE IF newCell.state = "miss" /\ (app = 1 \/ cell.state = "empty")
                                         THEN "miss" ELSE "none",
                        dropped |-> IF sunkNow THEN aiTargetQueue ELSE << >>]
        /\ UNCHANGED << app, fleet, probe, console, previewCells, aiBoard, shipHeap, aiShipsGen, currentShipIndex, shipOrientation,
                        isPlayerTurn, attackInProgress, frozen, resets, shots >>


\* aiTurn's inner callback with a miss that forgets the last hit.
AiResolveForgettingOnMiss(i) ==
    LET t == timers[i]
        cell == t.board[t.row][t.col]
        isHit == cell.state = "ship"
        newCell == IF isHit
                   THEN [cell EXCEPT !.state = "hit",
                                     !.animation = IF app = 2 THEN "hit" ELSE @]
                   ELSE AiMissCell(cell)
        newBoard == SetCell(t.board, t.row, t.col, newCell)
        shipIndex == FindIndex(cell.shipId)
        updatedPlayerShips == IF isHit THEN HitShip(playerShips, shipIndex) ELSE playerShips
        sunkNow == /\ isHit
                   /\ shipIndex # 0
                   /\ updatedPlayerShips[shipIndex].hits = SHIPS[shipIndex].size
        allSunk == AllSunk(updatedPlayerShips)
        anim == IF app = 2
                THEN << Timer("animClearPlayer", AnimDelay, t.row, t.col, newBoard, 0) >>
                ELSE << >>
        next == IF newCell.state = "hit" /\ ~allSunk
                THEN << PlainTimer("aiSelect", AiThinkDelay) >>
                ELSE IF ~allSunk THEN << PlainTimer("aiDone", TurnDelay) >>
                ELSE << >>
    IN  /\ ~frozen
        /\ t.kind = "aiResolve"
        /\ MayRun(i)
        /\ playerBoard' = newBoard
        /\ playerShips' = updatedPlayerShips
        /\ lastHit' = IF isHit THEN (IF sunkNow THEN << >> ELSE << t.row, t.col >>) ELSE << >>
        /\ aiTargetQueue' = IF isHit
                            THEN (IF sunkNow THEN << >>
                                  ELSE aiTargetQueue \o AdjacentCells(newBoard, t.row, t.col))
                            ELSE aiTargetQueue
        /\ winner' = IF isHit /\ allSunk THEN "ai" ELSE winner
        /\ gamePhase' = IF isHit /\ allSunk THEN "gameOver" ELSE gamePhase
        /\ timers' = RemoveAt(timers, i) \o anim \o next
        /\ lastShot' = [by |-> "ai",
                        outcome |-> IF isHit THEN (IF allSunk THEN "win" ELSE "hit")
                                    ELSE IF newCell.state = "miss" /\ (app = 1 \/ cell.state = "empty")
                                         THEN "miss" ELSE "none",
                        dropped |-> IF sunkNow THEN aiTargetQueue ELSE << >>]
        /\ UNCHANGED << app, fleet, probe, console, previewCells, aiBoard, shipHeap, aiShipsGen, currentShipIndex, shipOrientation,
                        isPlayerTurn, attackInProgress, frozen, resets, shots >>

\* aiTurn's inner callback if it did not call aiTurn() again after a hit: the
\* AI stops in the middle of its turn.
AiResolveStoppingAfterHit(i) ==
    LET t == timers[i]
        cell == t.board[t.row][t.col]
        isHit == cell.state = "ship"
        newCell == IF isHit
                   THEN [cell EXCEPT !.state = "hit",
                                     !.animation = IF app = 2 THEN "hit" ELSE @]
                   ELSE AiMissCell(cell)
        newBoard == SetCell(t.board, t.row, t.col, newCell)
        shipIndex == FindIndex(cell.shipId)
        updatedPlayerShips == IF isHit THEN HitShip(playerShips, shipIndex) ELSE playerShips
        sunkNow == /\ isHit
                   /\ shipIndex # 0
                   /\ updatedPlayerShips[shipIndex].hits = SHIPS[shipIndex].size
        allSunk == AllSunk(updatedPlayerShips)
        anim == IF app = 2
                THEN << Timer("animClearPlayer", AnimDelay, t.row, t.col, newBoard, 0) >>
                ELSE << >>
        next == IF newCell.state = "hit" /\ ~allSunk
                THEN << >>
                ELSE IF ~allSunk THEN << PlainTimer("aiDone", TurnDelay) >>
                ELSE << >>
    IN  /\ ~frozen
        /\ t.kind = "aiResolve"
        /\ MayRun(i)
        /\ playerBoard' = newBoard
        /\ playerShips' = updatedPlayerShips
        /\ lastHit' = IF isHit THEN (IF sunkNow THEN << >> ELSE << t.row, t.col >>) ELSE lastHit
        /\ aiTargetQueue' = IF isHit
                            THEN (IF sunkNow THEN << >>
                                  ELSE aiTargetQueue \o AdjacentCells(newBoard, t.row, t.col))
                            ELSE aiTargetQueue
        /\ winner' = IF isHit /\ allSunk THEN "ai" ELSE winner
        /\ gamePhase' = IF isHit /\ allSunk THEN "gameOver" ELSE gamePhase
        /\ timers' = RemoveAt(timers, i) \o anim \o next
        /\ lastShot' = [by |-> "ai",
                        outcome |-> IF isHit THEN (IF allSunk THEN "win" ELSE "hit")
                                    ELSE IF newCell.state = "miss" /\ (app = 1 \/ cell.state = "empty")
                                         THEN "miss" ELSE "none",
                        dropped |-> IF sunkNow THEN aiTargetQueue ELSE << >>]
        /\ UNCHANGED << app, fleet, probe, console, previewCells, aiBoard, shipHeap, aiShipsGen, currentShipIndex, shipOrientation,
                        isPlayerTurn, attackInProgress, frozen, resets, shots >>


\* aiTurn, inner callback: resolve the shot on the board captured at selection
\* time and on playerShipsRef.current.
AiResolve(i) ==
    LET t == timers[i]
        cell == t.board[t.row][t.col]
        isHit == cell.state = "ship"
        newCell == IF isHit
                   THEN [cell EXCEPT !.state = "hit",
                                     !.animation = IF app = 2 THEN "hit" ELSE @]
                   ELSE AiMissCell(cell)
        newBoard == SetCell(t.board, t.row, t.col, newCell)
        shipIndex == FindIndex(cell.shipId)
        updatedPlayerShips == IF isHit THEN HitShip(playerShips, shipIndex) ELSE playerShips
        sunkNow == /\ isHit
                   /\ shipIndex # 0
                   /\ updatedPlayerShips[shipIndex].hits = SHIPS[shipIndex].size
        allSunk == AllSunk(updatedPlayerShips)
        anim == IF app = 2
                THEN << Timer("animClearPlayer", AnimDelay, t.row, t.col, newBoard, 0) >>
                ELSE << >>
        next == IF newCell.state = "hit" /\ ~allSunk
                THEN << PlainTimer("aiSelect", AiThinkDelay) >>
                ELSE IF ~allSunk THEN << PlainTimer("aiDone", TurnDelay) >>
                ELSE << >>
    IN  /\ ~frozen
        /\ t.kind = "aiResolve"
        /\ MayRun(i)
        /\ playerBoard' = newBoard
        /\ playerShips' = updatedPlayerShips
        /\ lastHit' = IF isHit THEN (IF sunkNow THEN << >> ELSE << t.row, t.col >>) ELSE lastHit
        /\ aiTargetQueue' = IF isHit
                            THEN (IF sunkNow THEN << >>
                                  ELSE aiTargetQueue \o AdjacentCells(newBoard, t.row, t.col))
                            ELSE aiTargetQueue
        /\ winner' = IF isHit /\ allSunk THEN "ai" ELSE winner
        /\ gamePhase' = IF isHit /\ allSunk THEN "gameOver" ELSE gamePhase
        /\ timers' = RemoveAt(timers, i) \o anim \o next
        /\ lastShot' = [by |-> "ai",
                        outcome |-> IF isHit THEN (IF allSunk THEN "win" ELSE "hit")
                                    ELSE IF newCell.state = "miss" /\ (app = 1 \/ cell.state = "empty")
                                         THEN "miss" ELSE "none",
                        dropped |-> IF sunkNow THEN aiTargetQueue ELSE << >>]
        /\ UNCHANGED << app, fleet, probe, console, previewCells, aiBoard, shipHeap, aiShipsGen, currentShipIndex, shipOrientation,
                        isPlayerTurn, attackInProgress, frozen, resets, shots >>

\* 1500 ms after an AI miss: the turn goes back to the player.
AiDone(i) ==
    /\ ~frozen
    /\ timers[i].kind = "aiDone"
    /\ MayRun(i)
    /\ isPlayerTurn' = TRUE
    /\ attackInProgress' = IF app = 2 THEN FALSE ELSE attackInProgress
    /\ timers' = RemoveAt(timers, i)
    /\ UNCHANGED << app, fleet, probe, console, previewCells, gamePhase, playerBoard, aiBoard, playerShips, shipHeap, aiShipsGen,
                    currentShipIndex, shipOrientation, winner,
                    aiTargetQueue, lastHit, frozen, resets, shots, lastShot >>

\* The animation-clear timer of aiTurn (app 2): writes back its snapshot.
AnimClearPlayer(i) ==
    LET t == timers[i]
    IN  /\ ~frozen
        /\ t.kind = "animClearPlayer"
        /\ MayRun(i)
        /\ playerBoard' = SetCell(t.board, t.row, t.col,
                                  [t.board[t.row][t.col] EXCEPT !.animation = "none"])
        /\ timers' = RemoveAt(timers, i)
        /\ UNCHANGED << app, fleet, probe, console, previewCells, gamePhase, aiBoard, playerShips, shipHeap, aiShipsGen,
                        currentShipIndex, shipOrientation, isPlayerTurn, winner,
                        attackInProgress, aiTargetQueue, lastHit, frozen, resets, shots,
                        lastShot >>

----------------------------------------------------------------------------
\* Specifications

TimerStep ==
    \/ \E i \in 1 .. Len(timers) : TitleStart(i)
    \/ \E i \in 1 .. Len(timers) : AttackResolve(i)
    \/ \E i \in 1 .. Len(timers) : AttackEndHit(i)
    \/ \E i \in 1 .. Len(timers) : AttackToAI(i)
    \/ \E i \in 1 .. Len(timers) : AnimClearAi(i)
    \/ \E i \in 1 .. Len(timers) : AiSelect(i)
    \/ \E i \in 1 .. Len(timers) : AiResolve(i)
    \/ \E i \in 1 .. Len(timers) : AiDone(i)
    \/ \E i \in 1 .. Len(timers) : AnimClearPlayer(i)

UserStep ==
    \/ handleStart
    \/ startGame
    \/ handleKeyPress
    \/ \E x \in Cells : handlePlayerPlacement(x[1], x[2])
    \/ \E x \in Cells : handleMouseEnter(x[1], x[2])
    \/ handleMouseLeave
    \/ \E x \in Cells : handleAttack(x[1], x[2])

Next == UserStep \/ TimerStep \/ resetGame

Init == InitWith({"carrier"}) /\ probe = NoProbe /\ console = FreshConsole

Spec == Init /\ [][Next]_vars

\* The same program when the user never aborts a game.
NextNoReset == UserStep \/ TimerStep

InitAnyRoster ==
    InitWith({"carrier", "duel"}) /\ probe = NoProbe /\ console = FreshConsole

SpecNoReset == InitAnyRoster /\ [][NextNoReset]_vars

\* A callback armed with setTimeout runs once it is due: each kind of pending
\* callback is weakly fair. The user's actions are not.
TimersFire ==
    /\ WF_vars(\E i \in 1 .. Len(timers) : TitleStart(i))
    /\ WF_vars(\E i \in 1 .. Len(timers) : AttackResolve(i))
    /\ WF_vars(\E i \in 1 .. Len(timers) : AttackEndHit(i))
    /\ WF_vars(\E i \in 1 .. Len(timers) : AttackToAI(i))
    /\ WF_vars(\E i \in 1 .. Len(timers) : AnimClearAi(i))
    /\ WF_vars(\E i \in 1 .. Len(timers) : AiSelect(i))
    /\ WF_vars(\E i \in 1 .. Len(timers) : AiResolve(i))
    /\ WF_vars(\E i \in 1 .. Len(timers) : AiDone(i))
    /\ WF_vars(\E i \in 1 .. Len(timers) : AnimClearPlayer(i))

\* Scenarios: the same program with a user who clicks the title screen once,
\* keeps the pointer off the board while a ship is to be placed, and clicks
\* only the cells below. Every behaviour of a scenario is a behaviour of the
\* program; the longer games (several shots each side, a fleet of several
\* ships, a reset in mid-game, a game played to its end) are explored in
\* scenarios.
ScenarioPlacements == {<<0, 0>>, <<0, 2>>}
ScenarioAttacks == {<<0, 0>>, <<0, 1>>}

ScenarioUserStep ==
    \/ TitleClicksPending = 0 /\ handleStart
    \/ startGame
    \/ handleKeyPress
    \/ \E x \in ScenarioPlacements : handlePlayerPlacement(x[1], x[2])
    \/ \E x \in ScenarioAttacks : handleAttack(x[1], x[2])

NextScenario == ScenarioUserStep \/ TimerStep \/ resetGame

InitScenario == InitWith({"patrol", "rescue"}) /\ probe = NoProbe /\ console = FreshConsole

SpecScenario == InitScenario /\ [][NextScenario]_vars

NextScenarioNoReset == ScenarioUserStep \/ TimerStep

SpecScenarioNoReset == InitScenario /\ [][NextScenarioNoReset]_vars

FairSpecScenarioNoReset == SpecScenarioNoReset /\ TimersFire

\* The hunt: the fleet of several ships in games without reset that are
\* played to the end. The user fires at the cells of ScenarioAttacks, each
\* at most once, so the user fires up to two salvoes and the AI answers with
\* up to two chains of shots, of any length: the shots of such a game stay
\* below MaxConvoyShots, and no guard of the model cuts a chain short.
InitScenarioHunt == InitWith({"convoy"}) /\ probe = NoProbe /\ console = FreshConsole

SpecScenarioHunt == InitScenarioHunt /\ [][NextScenarioNoReset]_vars

FairSpecScenarioHunt == SpecScenarioHunt /\ TimersFire

\* The aborted mission: the same fleet with a user who fires one shot in the
\* first game, aborts it at some point, and sets up the next game without
\* firing again, while the callbacks of the aborted game go on.
ScenarioAbortUserStep ==
    \/ TitleClicksPending = 0 /\ handleStart
    \/ startGame
    \/ handleKeyPress
    \/ \E x \in ScenarioPlacements : handlePlayerPlacement(x[1], x[2])
    \/ \E x \in ScenarioAttacks : resets = 0 /\ Attacks = 0 /\ handleAttack(x[1], x[2])

NextScenarioAbort == ScenarioAbortUserStep \/ TimerStep \/ resetGame

SpecScenarioAbort == InitScenarioHunt /\ [][NextScenarioAbort]_vars

----------------------------------------------------------------------------
\* The placement functions applied on their own: the arguments are drawn in
\* the initial state, each action applies one function to them.

gameVars == << app, fleet, gamePhase, playerBoard, aiBoard, playerShips, shipHeap, aiShipsGen,
               currentShipIndex, shipOrientation, isPlayerTurn, winner, attackInProgress,
               aiTargetQueue, lastHit, timers, frozen, resets, shots, lastShot, previewCells >>

\* What a cell of an argument board holds besides nothing: a cell of another
\* ship, intact or hit, or a miss.
ProbeCells ==
    { [state |-> "ship", shipId |-> 2, animation |-> "none"],
      [state |-> "hit", shipId |-> 2, animation |-> "none"],
      [state |-> "miss", shipId |-> 0, animation |-> "none"] }

\* The argument boards: at most MaxProbeCells cells are not empty.
ProbeBoards ==
    { [r \in Coord |-> [c \in Coord |-> IF <<r, c>> \in DOMAIN f THEN f[<<r, c>>] ELSE EmptyCell]] :
        f \in UNION { [S -> ProbeCells] : S \in { T \in SUBSET Cells : Cardinality(T) <= MaxProbeCells } } }

InitPlacementFunctions ==
    /\ InitWith({"carrier", "rescue"})
    /\ console = FreshConsole
    /\ probe \in { [fn |-> "args", board |-> b, row |-> x[1], col |-> x[2], ship |-> i,
                    orientation |-> o] :
                     b \in ProbeBoards, x \in Cells, i \in ShipIdx, o \in Orientation }

ProbeAccepted ==
    canPlaceShip(probe.board, probe.row, probe.col, SHIPS[probe.ship].width,
                 SHIPS[probe.ship].length, probe.orientation)

ApplyCanPlaceShip ==
    /\ probe.fn = "args"
    /\ probe' = [fn |-> "canPlaceShip", board |-> probe.board, row |-> probe.row,
                 col |-> probe.col, ship |-> probe.ship, orientation |-> probe.orientation,
                 out |-> ProbeAccepted]
    /\ UNCHANGED << gameVars, console >>

\* placeShip is only ever called on a placement canPlaceShip accepted.
ApplyPlaceShip ==
    /\ probe.fn = "args"
    /\ ProbeAccepted
    /\ probe' = [fn |-> "placeShip", board |-> probe.board, row |-> probe.row,
                 col |-> probe.col, ship |-> probe.ship, orientation |-> probe.orientation,
                 out |-> placeShip(probe.board, probe.row, probe.col, SHIPS[probe.ship].width,
                                   SHIPS[probe.ship].length, probe.orientation,
                                   SHIPS[probe.ship].id)]
    /\ UNCHANGED << gameVars, console >>

\* useMemo(() => computePlacements(playerBoard, playerShips)) on the board
\* placeShip returned.
ApplyComputePlacements ==
    /\ probe.fn = "placeShip"
    /\ probe' = [fn |-> "computePlacements", board |-> probe.out, row |-> probe.row,
                 col |-> probe.col, ship |-> probe.ship, orientation |-> probe.orientation,
                 out |-> computePlacements(probe.out, SHIPS)]
    /\ UNCHANGED << gameVars, console >>

NextPlacementFunctions == ApplyCanPlaceShip \/ ApplyPlaceShip \/ ApplyComputePlacements

SpecPlacementFunctions == InitPlacementFunctions /\ [][NextPlacementFunctions]_vars

----------------------------------------------------------------------------
\* placeAIShips step by step: the for loop over SHIPS and, per ship, the
\* while loop of random attempts.

\* The loop condition without its attempt limit.
AttemptsUnlimited(attempts) == TRUE

\* attempts < 1000
AttemptsLeft(attempts) == attempts < MaxAttempts

InitPlaceAIShips ==
    /\ InitWith({"carrier", "patrol", "rescue"})
    /\ console = FreshConsole
    /\ probe = [fn |-> "placeAIShips", board |-> EmptyBoard, ship |-> 1,
                placed |-> FALSE, attempts |-> 0]

\* One pass of the while body: draw orientation, row and col; place the ship
\* if canPlaceShip accepts the draw; count the attempt.
PlaceAttempt ==
    /\ probe.fn = "placeAIShips"
    /\ probe.ship <= Len(SHIPS)
    /\ ~probe.placed
    /\ AttemptsLeft(probe.attempts)
    /\ \E x \in Cells, orientation \in Orientation :
         LET ship == SHIPS[probe.ship]
         IN  IF canPlaceShip(probe.board, x[1], x[2], ship.width, ship.length, orientation)
             THEN probe' = [probe EXCEPT
                              !.board = placeShip(probe.board, x[1], x[2], ship.width,
                                                  ship.length, orientation, ship.id),
                              !.placed = TRUE,
                              !.attempts = @ + 1]
             ELSE probe' = [probe EXCEPT !.attempts = @ + 1]
    /\ UNCHANGED << gameVars, console >>

\* The while loop is left: the for loop goes on with the next ship.
PlaceNextShip ==
    /\ probe.fn = "placeAIShips"
    /\ probe.ship <= Len(SHIPS)
    /\ probe.placed \/ ~AttemptsLeft(probe.attempts)
    /\ probe' = [probe EXCEPT !.ship = @ + 1, !.placed = FALSE, !.attempts = 0]
    /\ UNCHANGED << gameVars, console >>

\* return board
PlaceReturn ==
    /\ probe.fn = "placeAIShips"
    /\ probe.ship > Len(SHIPS)
    /\ probe' = [fn |-> "returned", board |-> probe.board, ship |-> probe.ship,
                 placed |-> probe.placed, attempts |-> probe.attempts]
    /\ UNCHANGED << gameVars, console >>

NextPlaceAIShips == PlaceAttempt \/ PlaceNextShip \/ PlaceReturn

\* The function runs to its end once called: its steps are weakly fair.
SpecPlaceAIShips ==
    InitPlaceAIShips /\ [][NextPlaceAIShips]_vars /\ WF_vars(NextPlaceAIShips)


----------------------------------------------------------------------------
\* aiPlacements applied on its own to two boards of the computer.

\* computePlacements(aiBoard, aiShips) without the filter on sunk.
aiPlacementsUnfiltered(board, ships) == computePlacements(board, SHIPS)

\* computePlacements(aiBoard, aiShips).filter(p => aiShips.find(x => x.id === p.shipId)?.sunk)
aiPlacements(board, ships) ==
    LET IsSunk(p) == FindIndex(p.shipId) # 0 /\ ships[FindIndex(p.shipId)].sunk
    IN  SelectSeq(computePlacements(board, SHIPS), IsSunk)

\* The board after the shots of a battle: every cell of the sunk ships is
\* hit, and the cells of shot are resolved (hit on a ship cell, miss on water).
Shoot(cell) ==
    IF cell.state = "ship" THEN [cell EXCEPT !.state = "hit"]
    ELSE IF cell.state = "empty" THEN [cell EXCEPT !.state = "miss"]
    ELSE cell

BoardAfterShots(board, sunk, shot) ==
    [r \in Coord |-> [c \in Coord |->
        IF << r, c >> \in shot \/ FindIndex(board[r][c].shipId) \in sunk
        THEN Shoot(board[r][c]) ELSE board[r][c]]]

\* The fleet state that goes with such a board.
ShipsAfterShots(board, sunk, shot) ==
    [i \in ShipIdx |->
        [hits |-> Cardinality({ x \in CoordsOf(board, SHIPS[i]) :
                                    BoardAfterShots(board, sunk, shot)[x[1]][x[2]].state = "hit" }),
         sunk |-> i \in sunk]]

\* Two boards placeAIShips can return on which the ships of sunk lie on the
\* same cells, one further shot of the user on each.
InitAiPlacements ==
    /\ InitWith({"rescue"})
    /\ console = FreshConsole
    /\ probe \in { [fn |-> "aiBoards",
                    board |-> BoardAfterShots(b, sunk, {x}),
                    other |-> BoardAfterShots(o, sunk, {y}),
                    ships |-> ShipsAfterShots(b, sunk, {x})] :
                     b \in placeAIShips, o \in placeAIShips,
                     sunk \in SUBSET ShipIdx,
                     x \in Cells, y \in Cells }
    /\ \A i \in ShipIdx :
          /\ probe.ships[i].sunk
                => /\ CoordsOf(probe.board, SHIPS[i]) = CoordsOf(probe.other, SHIPS[i])
                   /\ CoordsOf(probe.board, SHIPS[i]) # {}
          /\ ~probe.ships[i].sunk => probe.ships[i].hits < SHIPS[i].size

ApplyAiPlacements ==
    /\ probe.fn = "aiBoards"
    /\ probe' = [fn |-> "aiPlacements", board |-> probe.board, other |-> probe.other,
                 ships |-> probe.ships,
                 out |-> aiPlacements(probe.board, probe.ships),
                 outOther |-> aiPlacements(probe.other, probe.ships)]
    /\ UNCHANGED << gameVars, console >>

SpecAiPlacements == InitAiPlacements /\ [][ApplyAiPlacements]_vars

----------------------------------------------------------------------------
\* The PlacementConsole component: ships are dragged from a list and dropped
\* on its own board.  Its props canPlaceShip and placeShip take the ship
\* itself; they are the App's functions applied to the ship's width and
\* length.

\* The cell under the pointer, computed from clientX / clientY: any cell of
\* the grid, or a position beside it.
PointerCells == Cells \cup { <<0 - 1, 0>>, <<0, BOARD_SIZE>> }

OnGrid(row, col) == row >= 0 /\ row < BOARD_SIZE /\ col >= 0 /\ col < BOARD_SIZE

\* ships.find(s => s.id === dragState.shipId)
DraggedShip == SHIPS[FindIndex(console.dragState.shipId)]

\* availableShips: the ships without a recorded placement
availableShips ==
    { i \in ShipIdx : \A k \in 1 .. Len(console.placements) :
                          console.placements[k].shipId # SHIPS[i].id }

\* A list that offers every ship of the roster, placed or not.
handleShipPointerDownAnyShip(i) ==
    /\ app = 0
    /\ console' = [console EXCEPT !.selectedShipId = SHIPS[i].id,
                                  !.dragState = [shipId |-> SHIPS[i].id,
                                                 orientation |-> "horizontal"]]
    /\ UNCHANGED << gameVars, probe >>

handleShipPointerDown(i) ==
    /\ app = 0
    /\ i \in availableShips
    /\ console' = [console EXCEPT !.selectedShipId = SHIPS[i].id,
                                  !.dragState = [shipId |-> SHIPS[i].id,
                                                 orientation |-> "horizontal"]]
    /\ UNCHANGED << gameVars, probe >>

\* onClick of a ship card: setSelectedShipId(ship.id); the card is rendered
\* for the ships without a recorded placement.
handleShipClick(i) ==
    /\ app = 0
    /\ i \in availableShips
    /\ console' = [console EXCEPT !.selectedShipId = SHIPS[i].id]
    /\ UNCHANGED << gameVars, probe >>

\* key 'r' while a ship is dragged
handleKeyDown ==
    /\ app = 0
    /\ console.dragState # NoDrag
    /\ console' = [console EXCEPT !.dragState.orientation =
                       IF @ = "horizontal" THEN "vertical" ELSE "horizontal"]
    /\ UNCHANGED << gameVars, probe >>

handlePointerMove(row, col) ==
    /\ app = 0
    /\ IF console.dragState = NoDrag
       THEN UNCHANGED console
       ELSE IF ~OnGrid(row, col)
            THEN console' = [console EXCEPT !.previewCells = {}]
            ELSE LET ship == DraggedShip
                     orientation == console.dragState.orientation
                     isValid == canPlaceShip(console.board, row, col, ship.width, ship.length,
                                             orientation)
                     cells == { x \in Cells :
                                  IF orientation = "horizontal"
                                  THEN /\ x[2] >= col /\ x[2] < col + ship.length
                                       /\ x[1] >= row /\ x[1] < row + ship.width
                                  ELSE /\ x[1] >= row /\ x[1] < row + ship.length
                                       /\ x[2] >= col /\ x[2] < col + ship.width }
                 IN  console' = [console EXCEPT !.previewCells =
                                     { [row |-> x[1], col |-> x[2], valid |-> isValid] :
                                         x \in cells }]
    /\ UNCHANGED << gameVars, probe >>

\* The drop, and the effect that reports the placements once every ship has one.
handlePointerUp(row, col) ==
    /\ app = 0
    /\ IF console.dragState = NoDrag
       THEN console' = [console EXCEPT !.dragState = NoDrag, !.previewCells = {}]
       ELSE LET ship == DraggedShip
                orientation == console.dragState.orientation
            IN  IF /\ OnGrid(row, col)
                   /\ canPlaceShip(console.board, row, col, ship.width, ship.length, orientation)
                THEN console' =
                         [console EXCEPT
                             !.board = placeShip(console.board, row, col, ship.width,
                                                 ship.length, orientation, ship.id),
                             !.placements = Append(@, [shipId |-> ship.id, startRow |-> row,
                                                       startCol |-> col,
                                                       orientation |-> orientation]),
                             !.completions = IF Len(console.placements) + 1 = Len(SHIPS)
                                             THEN @ + 1 ELSE @,
                             !.dragState = NoDrag,
                             !.previewCells = {}]
                ELSE console' = [console EXCEPT !.dragState = NoDrag, !.previewCells = {}]
    /\ UNCHANGED << gameVars, probe >>

ConsoleStep ==
    \/ \E i \in ShipIdx : handleShipPointerDown(i)
    \/ \E i \in ShipIdx : handleShipClick(i)
    \/ handleKeyDown
    \/ \E x \in PointerCells : handlePointerMove(x[1], x[2])
    \/ \E x \in PointerCells : handlePointerUp(x[1], x[2])

\* The placement phase: an App up to the start of the battle, which the user
\* may abort (resetGame), or a PlacementConsole on its own.
InitPlacementConsole ==
    /\ app = 0
    /\ fleet \in {"carrier", "rescue"}
    /\ gamePhase = "none"
    /\ playerBoard = EmptyBoard
    /\ aiBoard = EmptyBoard
    /\ playerShips = FreshShips
    /\ shipHeap = [g \in Gens |-> FreshShips]
    /\ aiShipsGen = 0
    /\ currentShipIndex = 0
    /\ shipOrientation = "horizontal"
    /\ isPlayerTurn = TRUE
    /\ winner = "none"
    /\ attackInProgress = FALSE
    /\ aiTargetQueue = << >>
    /\ lastHit = << >>
    /\ timers = << >>
    /\ frozen = FALSE
    /\ resets = 0
    /\ shots = 0
    /\ lastShot = NoShot
    /\ probe = NoProbe
    /\ console = FreshConsole
    /\ previewCells = << >>

InitPlacement ==
    \/ InitWith({"carrier", "rescue"}) /\ probe = NoProbe /\ console = FreshConsole
    \/ InitPlacementConsole

NextPlacement ==
    \/ handleStart
    \/ \E i \in 1 .. Len(timers) : TitleStart(i)
    \/ startGame
    \/ handleKeyPress
    \/ \E x \in Cells : handlePlayerPlacement(x[1], x[2])
    \/ \E x \in Cells : handleMouseEnter(x[1], x[2])
    \/ handleMouseLeave
    \/ resetGame
    \/ ConsoleStep

SpecPlacement == InitPlacement /\ [][NextPlacement]_vars

----------------------------------------------------------------------------
\* Claims

\* C1: in each App, once a cell's state is hit or miss, no later battle
\* operation changes that cell's state (resolved cells are terminal), on the
\* player's board and on the AI's board alike.
C1_ResolvedCellsAreTerminal ==
    [][\A r \in Coord, c \in Coord :
          /\ Resolved(playerBoard, r, c) => playerBoard'[r][c].state = playerBoard[r][c].state
          /\ Resolved(aiBoard, r, c) => aiBoard'[r][c].state = aiBoard[r][c].state]_vars

\* C2: the target aiTurn chooses is empty or ship on the board it was chosen
\* on: every AI shot in flight aims at a cell that was unresolved when picked.
C2_AiTargetsUnresolvedCell ==
    \A i \in 1 .. Len(timers) :
        timers[i].kind = "aiResolve"
            => timers[i].board[timers[i].row][timers[i].col].state \in {"empty", "ship"}

\* A step in which a side fires a shot: handleAttack accepts a request, or
\* aiTurn's outer callback picks a target.
PlayerFires == shots' = shots + 1 /\ timers'[Len(timers')].kind = "attackResolve"
AiFires == shots' = shots + 1 /\ timers'[Len(timers')].kind = "aiResolve"

\* C3: after a resolved hit that leaves the defending fleet afloat the turn
\* owner does not change: the next shot is fired by the side that hit, for
\* the player's shot exactly as for the AI's.
C3_HitKeepsTurn ==
    [][lastShot.outcome = "hit"
          => /\ (lastShot.by = "player" => ~AiFires)
             /\ (lastShot.by = "ai" => ~PlayerFires)]_vars

\* C4: after a resolved miss that leaves the defending fleet afloat the turn
\* owner flips: after a player miss the next shot is the AI's, after an AI
\* miss the next shot is the player's, fired with isPlayerTurn true.
C4_MissFlipsTurn ==
    [][lastShot.outcome = "miss"
          => /\ (lastShot.by = "player" => ~PlayerFires)
             /\ (lastShot.by = "ai" => ~AiFires /\ (PlayerFires => isPlayerTurn))]_vars

\* C5: while a player attack is in flight (attackInProgress is set) every
\* further handleAttack request is ignored: it changes no board cell and no
\* ship's hits and schedules nothing; and a step raises a ship's hits by one
\* at most, consuming the one pending resolution of an accepted shot.
C5_InFlightRequestsIgnored ==
    [][/\ \A x \in Cells :
            (attackInProgress /\ handleAttack(x[1], x[2]))
                => UNCHANGED << playerBoard, aiBoard, playerShips, shipHeap, aiShipsGen,
                                timers, shots >>
       /\ \A g \in Gens, k \in ShipIdx :
            shipHeap'[g][k].hits > shipHeap[g][k].hits
                => /\ shipHeap'[g][k].hits = shipHeap[g][k].hits + 1
                   /\ \E i \in 1 .. Len(timers) :
                        /\ timers[i].kind = "attackResolve"
                        /\ timers[i].gen = g
                        /\ Len(SelectSeq(timers', LAMBDA t : t.kind = "attackResolve"))
                             = Len(SelectSeq(timers, LAMBDA t : t.kind = "attackResolve")) - 1]_vars

\* C5 witness: a shot is in flight in a battle state where a click on an
\* unresolved cell would otherwise be accepted.
C5_Witness ==
    /\ attackInProgress /\ gamePhase = "battle" /\ isPlayerTurn
    /\ \E i \in 1 .. Len(timers) : timers[i].kind = "attackResolve"
    /\ \E x \in Cells : ~Resolved(aiBoard, x[1], x[2])

\* C6: a handleAttack request whose target is already hit or miss, or that
\* arrives outside the battle phase or outside the player's turn, is a no-op:
\* boards, fleets, turn owner, phase, winner and the in-flight flag stay.
C6_RejectedAttackIsNoOp ==
    [][\A x \in Cells :
          (/\ \/ Resolved(aiBoard, x[1], x[2])
              \/ gamePhase # "battle"
              \/ ~isPlayerTurn
           /\ handleAttack(x[1], x[2]))
              => UNCHANGED << playerBoard, aiBoard, playerShips, shipHeap, aiShipsGen,
                              isPlayerTurn, gamePhase, winner, attackInProgress >>]_vars

\* C6 witness: the player may fire, and a cell the player can click is
\* already hit with its ship's hits counted.
C6_Witness ==
    /\ gamePhase = "battle" /\ isPlayerTurn /\ ~attackInProgress
    /\ \E x \in Cells :
         /\ aiBoard[x[1]][x[2]].state = "hit"
         /\ FindIndex(aiBoard[x[1]][x[2]].shipId) # 0
         /\ aiShips[FindIndex(aiBoard[x[1]][x[2]].shipId)].hits >= 1

\* C7: for every ship of both fleets, sunk is true exactly when hits equals
\* size, and hits never exceeds size.
C7_SunkIffHitsEqualSize ==
    \A k \in ShipIdx :
        /\ playerShips[k].sunk <=> playerShips[k].hits = SHIPS[k].size
        /\ playerShips[k].hits <= SHIPS[k].size
        /\ aiShips[k].sunk <=> aiShips[k].hits = SHIPS[k].size
        /\ aiShips[k].hits <= SHIPS[k].size

\* The cells of a board that carry a ship's id and are hit.
HitCells(board, shipId) ==
    { x \in Cells : board[x[1]][x[2]].shipId = shipId /\ board[x[1]][x[2]].state = "hit" }

\* C8: in every battle state a ship's hits counter equals the number of hit
\* cells carrying its shipId on its owner's board.
C8_HitsCountHitCells ==
    gamePhase = "battle"
        => \A k \in ShipIdx :
              /\ playerShips[k].hits = Cardinality(HitCells(playerBoard, SHIPS[k].id))
              /\ aiShips[k].hits = Cardinality(HitCells(aiBoard, SHIPS[k].id))

\* C9: the shot that sinks the last ship of a fleet ends in gameOver with
\* the attacker as winner; winner is player exactly when every AI ship is
\* sunk and ai exactly when every player ship is sunk; the phase is gameOver
\* exactly when one fleet is fully sunk; the two fleets are never both sunk.
C9_GameOverAndWinner ==
    [][/\ (~AllSunk(aiShips) /\ AllSunk(aiShips') /\ resets' = resets)
            => gamePhase' = "gameOver" /\ winner' = "player"
       /\ (~AllSunk(playerShips) /\ AllSunk(playerShips') /\ resets' = resets)
            => gamePhase' = "gameOver" /\ winner' = "ai"
       /\ (winner' = "player" <=> AllSunk(aiShips'))
       /\ (winner' = "ai" <=> AllSunk(playerShips'))
       /\ (gamePhase' = "gameOver" <=> (AllSunk(aiShips') \/ AllSunk(playerShips')))
       /\ ~(AllSunk(aiShips') /\ AllSunk(playerShips'))]_vars

\* The cell states of a board (without the animation marks).
CellStates(board) == [r \in Coord |-> [c \in Coord |-> board[r][c].state]]

\* C10: once the phase is gameOver, until resetGame no attack is accepted,
\* no AI shot is chosen or resolved, and neither board, neither fleet nor
\* the winner changes.
C10_GameOverIsTerminal ==
    [][(gamePhase = "gameOver" /\ resets' = resets)
          => /\ shots' = shots
             /\ CellStates(playerBoard') = CellStates(playerBoard)
             /\ CellStates(aiBoard') = CellStates(aiBoard)
             /\ playerShips' = playerShips
             /\ aiShips' = aiShips
             /\ winner' = winner
             /\ gamePhase' = "gameOver"]_vars


\* The cells of the two boards that belong to a ship (shipId is kept when a
\* ship cell is hit).
ShipOfCell(board, r, c) == board[r][c].shipId

Chebyshev(r1, c1, r2, c2) ==
    LET dr == IF r1 > r2 THEN r1 - r2 ELSE r2 - r1
        dc == IF c1 > c2 THEN c1 - c2 ELSE c2 - c1
    IN  IF dr > dc THEN dr ELSE dc

ShipsApart(board) ==
    \A r1 \in Coord, c1 \in Coord, r2 \in Coord, c2 \in Coord :
        (/\ ShipOfCell(board, r1, c1) # 0
         /\ ShipOfCell(board, r2, c2) # 0
         /\ ShipOfCell(board, r1, c1) # ShipOfCell(board, r2, c2))
            => Chebyshev(r1, c1, r2, c2) > 1

\* C11: on the player's board and on the computer's board no two cells that
\* belong to different ships are within Chebyshev distance 1 of each other:
\* ships never overlap and never touch, not even diagonally.
C11_ShipsNeverTouch == ShipsApart(playerBoard) /\ ShipsApart(aiBoard)


\* The footprint of a ship placed at (row, col), and whether a cell lies in
\* the footprint expanded by one cell in all 8 directions.
Footprint(row, col, ship, orientation) ==
    IF orientation = "horizontal"
    THEN { <<r, c>> : r \in row .. (row + ship.width - 1), c \in col .. (col + ship.length - 1) }
    ELSE { <<r, c>> : r \in row .. (row + ship.length - 1), c \in col .. (col + ship.width - 1) }

NearFootprint(x, row, col, ship, orientation) ==
    \E y \in Footprint(row, col, ship, orientation) : Chebyshev(x[1], x[2], y[1], y[2]) <= 1

ProbeFootprint == Footprint(probe.row, probe.col, SHIPS[probe.ship], probe.orientation)

\* C12: canPlaceShip returns true if and only if the footprint lies entirely
\* inside the board and no cell of the board within one cell of the footprint
\* (in any of the 8 directions, the footprint included) is a ship cell.
C12_CanPlaceShipIffFreeAndInside ==
    probe.fn = "canPlaceShip"
        => (probe.out <=>
               /\ ProbeFootprint \subseteq Cells
               /\ \A x \in Cells :
                      NearFootprint(x, probe.row, probe.col, SHIPS[probe.ship], probe.orientation)
                          => probe.board[x[1]][x[2]].state # "ship")

\* canPlaceShip has rejected a footprint that is inside the board and free,
\* because of a ship cell that touches it at a corner only.
C12_Witness ==
    /\ probe.fn = "canPlaceShip"
    /\ ~probe.out
    /\ ProbeFootprint \subseteq Cells
    /\ \E x \in Cells :
           /\ probe.board[x[1]][x[2]].state = "ship"
           /\ \A y \in ProbeFootprint : x[1] # y[1] /\ x[2] # y[2]
    /\ \A x \in Cells :
           probe.board[x[1]][x[2]].state = "ship"
               => \A y \in ProbeFootprint : x[1] # y[1] /\ x[2] # y[2]


\* C13: for a placement canPlaceShip accepts, placeShip returns a board in
\* which exactly the footprint cells are ship cells carrying the given
\* shipId, and every cell outside the footprint equals the cell of the board
\* it was given.  (The argument is a value here; in the source it is the deep
\* copy JSON.parse(JSON.stringify(board)) that keeps the argument intact.)
C13_PlaceShipChangesFootprintOnly ==
    probe.fn = "placeShip"
        => /\ \A x \in Cells :
                  IF x \in ProbeFootprint
                  THEN /\ probe.out[x[1]][x[2]].state = "ship"
                       /\ probe.out[x[1]][x[2]].shipId = SHIPS[probe.ship].id
                  ELSE probe.out[x[1]][x[2]] = probe.board[x[1]][x[2]]
           /\ { x \in Cells : /\ probe.out[x[1]][x[2]].state = "ship"
                              /\ probe.out[x[1]][x[2]].shipId = SHIPS[probe.ship].id }
                  = ProbeFootprint

\* placeShip has been applied to a board that holds a resolved cell inside
\* the footprint and a cell of another ship outside it.
C13_Witness ==
    /\ probe.fn = "placeShip"
    /\ \E x \in ProbeFootprint : probe.board[x[1]][x[2]].state = "miss"
    /\ \E x \in Cells \ ProbeFootprint : probe.board[x[1]][x[2]].state = "ship"


\* C14: a placement attempt that canPlaceShip rejects changes nothing: after
\* handlePlayerPlacement the player's board, the index of the ship to place,
\* the phase and the computer's board are as before, and after
\* PlacementConsole's pointer-up its board and its recorded placements are
\* as before.
C14_RejectedPlacementIsNoOp ==
    [][/\ \A x \in Cells :
              (/\ handlePlayerPlacement(x[1], x[2])
               /\ currentShipIndex < Len(SHIPS)
               /\ ~canPlaceShip(playerBoard, x[1], x[2], SHIPS[currentShipIndex + 1].width,
                                SHIPS[currentShipIndex + 1].length, shipOrientation))
                  => UNCHANGED << playerBoard, currentShipIndex, gamePhase, aiBoard >>
       /\ \A x \in PointerCells :
              (/\ handlePointerUp(x[1], x[2])
               /\ console.dragState # NoDrag
               /\ ~(/\ OnGrid(x[1], x[2])
                    /\ canPlaceShip(console.board, x[1], x[2], DraggedShip.width,
                                    DraggedShip.length, console.dragState.orientation)))
                  => /\ console'.board = console.board
                     /\ console'.placements = console.placements
                     /\ console'.completions = console.completions]_vars

\* C14 witness: during placement a ship is on the player's board and the next
\* ship's footprint at some cell is inside the board and free, but touches
\* the placed ship, so that a click there is rejected.
C14_Witness ==
    /\ gamePhase = "placement"
    /\ currentShipIndex >= 1
    /\ currentShipIndex < Len(SHIPS)
    /\ \E x \in Cells :
           LET ship == SHIPS[currentShipIndex + 1]
               cells == Footprint(x[1], x[2], ship, shipOrientation)
           IN  /\ cells \subseteq Cells
               /\ \A y \in cells : playerBoard[y[1]][y[2]].state = "empty"
               /\ ~canPlaceShip(playerBoard, x[1], x[2], ship.width, ship.length,
                                shipOrientation)


\* Every roster ship has a cell on the board.
WholeRosterOn(board) ==
    \A i \in ShipIdx : \E x \in Cells : ShipOfCell(board, x[1], x[2]) = SHIPS[i].id

\* The step commits the placement of the last roster ship.
CommitsLastPlacement ==
    /\ gamePhase = "placement"
    /\ currentShipIndex = Len(SHIPS) - 1
    /\ \E x \in Cells :
           /\ canPlaceShip(playerBoard, x[1], x[2], SHIPS[Len(SHIPS)].width,
                           SHIPS[Len(SHIPS)].length, shipOrientation)
           /\ playerBoard' = placeShip(playerBoard, x[1], x[2], SHIPS[Len(SHIPS)].width,
                                       SHIPS[Len(SHIPS)].length, shipOrientation,
                                       SHIPS[Len(SHIPS)].id)

\* C15: the phase changes from placement to battle exactly in the step that
\* commits the placement of the last roster ship, that step auto-places the
\* computer's fleet, and the phase is never battle while some roster ship has
\* no cell on the player's board.
C15_BattleStartsWithLastPlacement ==
    [][/\ (gamePhase = "placement" /\ gamePhase' = "battle") <=> CommitsLastPlacement
       /\ CommitsLastPlacement => aiBoard' \in placeAIShips
       /\ gamePhase' = "battle" => WholeRosterOn(playerBoard')]_vars


\* C16: whenever the game is in the battle phase the computer's board holds
\* the complete roster: for every roster ship exactly width times length
\* cells carry its shipId, also when placeAIShips ran out of attempts.
C16_BattleAgainstWholeFleet ==
    gamePhase = "battle"
        => \A i \in ShipIdx :
               Cardinality(CoordsOf(aiBoard, SHIPS[i])) = SHIPS[i].width * SHIPS[i].length


\* What resetGame leaves besides the phase: the first ship is to be placed,
\* both boards consist of empty cells only, every ship of both fleets has
\* hits = 0 and sunk = false, the AI target queue is empty, last-hit is
\* cleared, the winner is null and the player is the turn owner.
FreshAfterStep ==
    /\ currentShipIndex' = 0
    /\ \A x \in Cells : /\ playerBoard'[x[1]][x[2]].state = "empty"
                        /\ aiBoard'[x[1]][x[2]].state = "empty"
    /\ \A i \in ShipIdx : /\ playerShips'[i].hits = 0 /\ ~playerShips'[i].sunk
                          /\ aiShips'[i].hits = 0 /\ ~aiShips'[i].sunk
    /\ aiTargetQueue' = << >>
    /\ lastHit' = << >>
    /\ winner' = "none"
    /\ isPlayerTurn'

\* C17 as stated: resetGame, in whatever phase it is invoked, puts the game
\* into the placement phase with fresh state.
C17_ResetGivesPlacementState ==
    [][resets' = resets + 1 => (gamePhase' = "placement" /\ FreshAfterStep)]_vars

\* C17 amended: resetGame, in whatever phase it is invoked (placement,
\* battle or gameOver), puts the game into the instructions phase, the screen
\* from which startGame opens the placement, with fresh state: the first
\* ship is to be placed, both boards consist of empty cells only, every ship
\* of both fleets has hits = 0 and sunk = false, the AI target queue is
\* empty, last-hit is cleared, the winner is null and the player is the turn
\* owner.
C17_ResetGivesFreshState ==
    [][resets' = resets + 1 => (gamePhase' = "instructions" /\ FreshAfterStep)]_vars

\* C17 witness: resetGame has run in a game of a fleet of several ships
\* after two shots or more, with an AI turn pending, and nothing has been
\* resolved since: the phase is instructions, the turn is the player's, the
\* queue and the player's board are empty again.
C17_Witness ==
    /\ resets = 1
    /\ Len(SHIPS) > 1
    /\ gamePhase = "instructions"
    /\ lastShot = NoShot
    /\ \E i \in 1 .. Len(timers) : timers[i].kind = "aiSelect"
    /\ shots >= 2
    /\ isPlayerTurn
    /\ aiTargetQueue = << >>
    /\ playerBoard = EmptyBoard


\* The cells of the probed ship on the board computePlacements was given.
ProbeShipCells == CoordsOf(probe.board, SHIPS[probe.ship])

\* C18: placing a roster ship with placeShip at a start cell canPlaceShip
\* accepts and then calling computePlacements yields one placement of that
\* ship, with startRow and startCol equal to the start cell and the
\* orientation equal to the one used; the orientation reported is horizontal
\* exactly when the ship's cells span more columns than rows.
C18_PlacementRoundTrip ==
    probe.fn = "computePlacements"
        => /\ Len(probe.out) = 1
           /\ probe.out[1].shipId = SHIPS[probe.ship].id
           /\ probe.out[1].startRow = probe.row
           /\ probe.out[1].startCol = probe.col
           /\ probe.out[1].orientation = probe.orientation
           /\ probe.out[1].orientation = "horizontal"
                  <=> Cardinality({ x[2] : x \in ProbeShipCells })
                          > Cardinality({ x[1] : x \in ProbeShipCells })

\* C18 witness: the round trip has been made with the 2-wide ship placed
\* horizontally, on a board that holds cells of another ship.
C18_Witness ==
    /\ probe.fn = "computePlacements"
    /\ SHIPS[probe.ship].width = 2
    /\ probe.orientation = "horizontal"
    /\ probe.out[1].orientation = "horizontal"
    /\ \E x \in Cells : probe.board[x[1]][x[2]].shipId = 2


\* The positions of the queue whose cell is neither hit nor miss on the
\* player's board.
UnresolvedInQueue ==
    { k \in 1 .. Len(aiTargetQueue) :
          ~Resolved(playerBoard, aiTargetQueue[k][1], aiTargetQueue[k][2]) }

\* C19: when aiTurn picks a target with a non-empty target queue, the queue
\* is consumed from the front: the candidates already hit or miss are
\* discarded, the first unresolved candidate is the target, and the
\* candidates behind it stay queued in their order.
C19_QueueConsumedFromFront ==
    [][(AiFires /\ aiTargetQueue # << >>)
          => IF UnresolvedInQueue = {}
             THEN aiTargetQueue' = << >>
             ELSE LET k == CHOOSE j \in UnresolvedInQueue : \A m \in UnresolvedInQueue : j <= m
                  IN  /\ timers'[Len(timers')].row = aiTargetQueue[k][1]
                      /\ timers'[Len(timers')].col = aiTargetQueue[k][2]
                      /\ aiTargetQueue' = SubSeq(aiTargetQueue, k + 1, Len(aiTargetQueue))]_vars


\* The cells of the player's board that the step changes.
ChangedPlayerCells == { x \in Cells : playerBoard'[x[1]][x[2]] # playerBoard[x[1]][x[2]] }

\* C20: every aiTurn resolves exactly one attack: the step in which its shot
\* is resolved changes exactly one cell of the player's board, from ship to
\* hit or from empty to miss, and leaves every other cell of that board as
\* it was.
C20_AiTurnResolvesOneCell ==
    [][(\E i \in 1 .. Len(timers) : AiResolve(i))
          => \E x \in Cells :
                 /\ ChangedPlayerCells = {x}
                 /\ \/ /\ playerBoard[x[1]][x[2]].state = "ship"
                       /\ playerBoard'[x[1]][x[2]].state = "hit"
                    \/ /\ playerBoard[x[1]][x[2]].state = "empty"
                       /\ playerBoard'[x[1]][x[2]].state = "miss"]_vars


\* The step resolves the AI shot of timer i.
AiResolves(i) == i \in 1 .. Len(timers) /\ AiResolve(i)

\* The step counts a hit on a player ship that stays afloat / that sinks.
HitLeavesShipAfloat ==
    \E s \in ShipIdx : playerShips'[s].hits = playerShips[s].hits + 1 /\ ~playerShips'[s].sunk
HitSinksShip ==
    \E s \in ShipIdx : /\ playerShips'[s].hits = playerShips[s].hits + 1
                       /\ playerShips'[s].hits = SHIPS[s].size

\* The cells of the board orthogonally next to (row, col) that are neither
\* hit nor miss on the board.
OpenNeighbours(board, row, col) ==
    { x \in Cells : /\ Chebyshev(x[1], x[2], row, col) = 1
                    /\ (x[1] = row \/ x[2] = col)
                    /\ ~Resolved(board, x[1], x[2]) }

\* C21: when an AI shot hits without sinking the ship, last-hit becomes the
\* target cell and the unresolved in-bounds orthogonal neighbours of the
\* target are appended, each once, behind the entries already queued; no
\* entry is removed or reordered and every entry is a cell of the board.
C21_HitQueuesNeighbours ==
    [][\A i \in 1 .. Len(timers) :
          (AiResolves(i) /\ HitLeavesShipAfloat)
              => LET open == OpenNeighbours(playerBoard', timers[i].row, timers[i].col)
                     old == Len(aiTargetQueue)
                 IN  /\ lastHit' = << timers[i].row, timers[i].col >>
                     /\ Len(aiTargetQueue') = old + Cardinality(open)
                     /\ SubSeq(aiTargetQueue', 1, old) = aiTargetQueue
                     /\ { aiTargetQueue'[k] : k \in (old + 1) .. Len(aiTargetQueue') } = open
                     /\ \A k \in 1 .. Len(aiTargetQueue') : aiTargetQueue'[k] \in Cells]_vars

\* C21 witness: an AI hit has left the ship afloat and put its neighbours
\* behind an entry that was queued before.
C21_Witness ==
    /\ lastShot.by = "ai" /\ lastShot.outcome = "hit"
    /\ lastHit # << >>
    /\ Len(aiTargetQueue) > Cardinality(OpenNeighbours(playerBoard, lastHit[1], lastHit[2]))
    /\ \E k \in 1 .. Len(aiTargetQueue) :
           aiTargetQueue[k] \notin OpenNeighbours(playerBoard, lastHit[1], lastHit[2])


\* C22: when an AI hit brings a player ship to hits = size, the AI target
\* queue is empty and last-hit is cleared after that resolution, whatever was
\* queued before: the candidates next to other ships that are hit and not
\* sunk are dropped as well.
C22_SinkingClearsMemory ==
    [][\A i \in 1 .. Len(timers) :
          (AiResolves(i) /\ HitSinksShip) => aiTargetQueue' = << >> /\ lastHit' = << >>]_vars

\* C22 witness: the AI has just sunk a ship while another ship was hit and
\* afloat, and a candidate the resolution dropped lies next to a hit cell of
\* that other ship; the queue and last-hit are empty and the AI's next shot
\* is pending.
C22_Witness ==
    /\ lastShot.by = "ai" /\ lastShot.outcome = "hit"
    /\ \E s \in ShipIdx : playerShips[s].sunk /\ playerShips[s].hits = SHIPS[s].size
    /\ \E s \in ShipIdx, x \in Cells :
           /\ ~playerShips[s].sunk
           /\ playerShips[s].hits > 0
           /\ playerBoard[x[1]][x[2]].state = "hit"
           /\ playerBoard[x[1]][x[2]].shipId = SHIPS[s].id
           /\ \E k \in 1 .. Len(lastShot.dropped) :
                  lastShot.dropped[k] \in OpenNeighbours(playerBoard, x[1], x[2])
    /\ aiTargetQueue = << >>
    /\ lastHit = << >>
    /\ \E k \in 1 .. Len(timers) : timers[k].kind = "aiSelect"


\* C23: when an AI shot misses (its target is not a ship cell), resolving it
\* leaves the AI target queue and last-hit as target selection left them,
\* and changes no ship's hits or sunk flag in either fleet.
C23_MissKeepsMemory ==
    [][\A i \in 1 .. Len(timers) :
          (AiResolves(i) /\ timers[i].board[timers[i].row][timers[i].col].state # "ship")
              => /\ aiTargetQueue' = aiTargetQueue
                 /\ lastHit' = lastHit
                 /\ playerShips' = playerShips
                 /\ aiShips' = aiShips]_vars

\* C23 witness: an AI miss has been resolved while candidates were queued and
\* a last hit was recorded; both are still there.
C23_Witness ==
    /\ lastShot.by = "ai" /\ lastShot.outcome = "miss"
    /\ aiTargetQueue # << >>
    /\ lastHit # << >>
    /\ \E k \in 1 .. Len(timers) : timers[k].kind = "aiDone"


\* C24: when aiTurn finds its queue non-empty and every queued candidate
\* already resolved, it goes on with the follow-up step: if last-hit is
\* recorded and has an unresolved in-bounds orthogonal neighbour, the target
\* is such a neighbour, not a cell from the random search.
C24_ExhaustedQueueFallsToFollowUp ==
    [][(/\ AiFires
        /\ aiTargetQueue # << >>
        /\ UnresolvedInQueue = {}
        /\ lastHit # << >>
        /\ OpenNeighbours(playerBoard, lastHit[1], lastHit[2]) # {})
          => << timers'[Len(timers')].row, timers'[Len(timers')].col >>
                 \in OpenNeighbours(playerBoard, lastHit[1], lastHit[2])]_vars


\* The shots whose resolution is pending, and the AI turns under way (a
\* target still to be chosen, or chosen and not yet resolved).
ShotsInFlight ==
    { i \in 1 .. Len(timers) : timers[i].kind \in {"attackResolve", "aiResolve"} }
AiTurnsUnderWay ==
    { i \in 1 .. Len(timers) : timers[i].kind \in {"aiSelect", "aiResolve"} }
PlayerShotInFlight == \E i \in 1 .. Len(timers) : timers[i].kind = "attackResolve"

\* C25: at most one shot is in flight at any time and at most one AI turn is
\* under way; the AI chooses a target only when no shot is in flight, and it
\* chooses or resolves a shot only while it is not the player's turn and no
\* player shot is in flight.
C25_OneShotInFlight ==
    [][/\ Cardinality(ShotsInFlight') <= 1
       /\ Cardinality(AiTurnsUnderWay') <= 1
       /\ AiFires => (~isPlayerTurn /\ ShotsInFlight = {})
       /\ \A i \in 1 .. Len(timers) :
              AiResolves(i) => (~isPlayerTurn /\ ~PlayerShotInFlight)]_vars


\* A shot of the player at cell x is in flight.
PlayerShotAt(x) ==
    \E i \in 1 .. Len(timers) :
        timers[i].kind = "attackResolve" /\ timers[i].row = x[1] /\ timers[i].col = x[2]

\* C26: every attack that handleAttack accepts is resolved (its target cell
\* becomes hit or miss), and whenever attackInProgress is set it is cleared
\* again later, after a hit, after a miss and after the winning hit.
C26_AttackResolvesAndReleases ==
    /\ \A x \in Cells : PlayerShotAt(x) ~> Resolved(aiBoard, x[1], x[2])
    /\ attackInProgress ~> ~attackInProgress

\* C26 witness: a player hit that left the AI fleet afloat has been resolved
\* and attackInProgress has been cleared since.
C26_Witness ==
    /\ lastShot.by = "player" /\ lastShot.outcome = "hit"
    /\ \E x \in Cells : aiBoard[x[1]][x[2]].state = "hit"
    /\ ~attackInProgress
    /\ gamePhase = "battle"


\* C27: once the turn has passed to the AI, the chain of consecutive AI shots
\* ends: later it is the player's turn again with attackInProgress cleared,
\* or the game is over.
C27_AiChainEnds ==
    ~isPlayerTurn ~> ((isPlayerTurn /\ ~attackInProgress) \/ gamePhase = "gameOver")

\* C27 witness: the AI has sunk a ship of a fleet that stays afloat, has shot
\* on and missed, and the turn is back with the player, who may fire.
C27_Witness ==
    /\ lastShot.by = "ai" /\ lastShot.outcome = "miss"
    /\ \E s \in ShipIdx : playerShips[s].sunk
    /\ \E s \in ShipIdx : ~playerShips[s].sunk
    /\ isPlayerTurn
    /\ ~attackInProgress
    /\ gamePhase = "battle"


\* C29: placeAIShips terminates: it makes at most MaxAttempts attempts per
\* ship and then goes on with the next ship, whether or not canPlaceShip
\* accepted a draw, and returns; the board it returns is one of the boards
\* of placeAIShips.
C29_PlaceAIShipsTerminates ==
    /\ [](probe.attempts <= MaxAttempts)
    /\ [](probe.fn = "returned" => probe.board \in placeAIShips)
    /\ <>(probe.fn = "returned")

\* C29 witness: placeAIShips has returned a board without one of the ships:
\* every attempt for that ship was rejected.
C29_Witness ==
    /\ probe.fn = "returned"
    /\ \E i \in ShipIdx : \A x \in Cells : probe.board[x[1]][x[2]].shipId # SHIPS[i].id
    /\ \E x \in Cells : probe.board[x[1]][x[2]].state = "ship"


\* A hover: the pointer enters or leaves a cell of the player's board in an
\* App, or moves during a drag in a PlacementConsole.
Hovers ==
    \/ \E x \in Cells : handleMouseEnter(x[1], x[2])
    \/ handleMouseLeave
    \/ \E x \in PointerCells : handlePointerMove(x[1], x[2])

\* C30: a hover changes the preview cells and nothing else: the boards, the
\* ships, the ship to place next and its orientation, the phase, and in a
\* PlacementConsole the board, the placements, the drag and the selection
\* are as before, however often the pointer moves.
C30_PreviewChangesNothingElse ==
    [][Hovers => /\ UNCHANGED << gamePhase, playerBoard, aiBoard, playerShips, shipHeap,
                                 aiShipsGen, currentShipIndex, shipOrientation,
                                 isPlayerTurn, winner, attackInProgress >>
                 /\ console'.board = console.board
                 /\ console'.placements = console.placements
                 /\ console'.dragState = console.dragState
                 /\ console'.selectedShipId = console.selectedShipId
                 /\ console'.completions = console.completions]_vars

\* C30 witness: with one ship placed, the App previews the footprint of the
\* next one; the board holds the first ship only.
C30_Witness ==
    /\ gamePhase = "placement"
    /\ currentShipIndex = 1
    /\ Len(previewCells) = SHIPS[2].size
    /\ \A k \in 1 .. Len(previewCells) :
           playerBoard[previewCells[k][1]][previewCells[k][2]].state = "empty"
    /\ Cardinality({ x \in Cells : playerBoard[x[1]][x[2]].state = "ship" }) = SHIPS[1].size


\* The cells in which two boards differ.
BoardDiff(b1, b2) == { x \in Cells : b1[x[1]][x[2]] # b2[x[1]][x[2]] }

\* A delayed callback that writes the computer's board, and one that writes
\* the player's board, is running.
WritesAiBoard(i) == AttackResolve(i) \/ AnimClearAi(i)
WritesPlayerBoard(i) == AiResolve(i) \/ AnimClearPlayer(i)

\* C31: every delayed callback that writes a board (the resolution of a shot
\* after the missile delay, the animation-clear timers) leaves a board that
\* differs from the board current when it runs in the cell it targets at
\* most: nothing recorded since the callback was scheduled is lost by writing
\* back the earlier snapshot.
C31_CallbacksWriteOnlyTheirCell ==
    [][\A i \in 1 .. Len(timers) :
          /\ WritesAiBoard(i)
                => BoardDiff(aiBoard, aiBoard') \subseteq { << timers[i].row, timers[i].col >> }
          /\ WritesPlayerBoard(i)
                => BoardDiff(playerBoard, playerBoard') \subseteq { << timers[i].row, timers[i].col >> }]_vars
\* The ids of the roster (0 stands for a cell without shipId).
RosterIds == { SHIPS[k].id : k \in ShipIdx }

ShipIdMatchesState(board) ==
    \A x \in Cells :
        LET cell == board[x[1]][x[2]]
        IN  /\ cell.state \in {"empty", "miss"} => cell.shipId = 0
            /\ cell.state \in {"ship", "hit"} => cell.shipId \in RosterIds

\* C32: on both boards a cell carries a shipId only when its state is ship or
\* hit: empty and miss cells carry none, and every ship or hit cell carries
\* the id of a roster ship.
C32_ShipIdOnlyOnShipOrHit ==
    ShipIdMatchesState(playerBoard) /\ ShipIdMatchesState(aiBoard)
\* The targets of the AI shots chosen and not yet resolved.
AiTargetsInFlight ==
    { << timers[i].row, timers[i].col >> :
          i \in { j \in 1 .. Len(timers) : timers[j].kind = "aiResolve" } }

\* C33 as stated: in every battle state with last-hit recorded, every
\* in-bounds orthogonal neighbour of last-hit that is neither hit nor miss is
\* in the AI target queue.
C33_OpenNeighboursQueued ==
    (gamePhase = "battle" /\ lastHit # << >>)
        => OpenNeighbours(playerBoard, lastHit[1], lastHit[2]) \subseteq Range(aiTargetQueue)

\* C33 amended: in every battle state with last-hit recorded, every
\* unresolved in-bounds orthogonal neighbour of last-hit is in the AI target
\* queue or is the target of the AI shot in flight; while aiTurn's selection
\* is pending no AI shot is in flight and all of them are in the queue, so a
\* selection that finds the queue empty finds no unresolved neighbour of
\* last-hit and its follow-up step selects nothing.
C33_OpenNeighboursQueuedOrInFlight ==
    /\ (gamePhase = "battle" /\ lastHit # << >>)
          => OpenNeighbours(playerBoard, lastHit[1], lastHit[2])
                 \subseteq (Range(aiTargetQueue) \cup AiTargetsInFlight)
    /\ (/\ gamePhase = "battle"
        /\ lastHit # << >>
        /\ \E i \in 1 .. Len(timers) : timers[i].kind = "aiSelect")
          => /\ AiTargetsInFlight = {}
             /\ OpenNeighbours(playerBoard, lastHit[1], lastHit[2]) \subseteq Range(aiTargetQueue)

\* C33 witness: the AI has sunk a ship, has found its queue empty at the next
\* selection and has hit another ship: last-hit is recorded with unresolved
\* neighbours, all of them queued, and the next selection is pending.
C33_Witness ==
    /\ gamePhase = "battle"
    /\ \E s \in ShipIdx : playerShips[s].sunk
    /\ lastHit # << >>
    /\ lastShot.by = "ai" /\ lastShot.outcome = "hit"
    /\ OpenNeighbours(playerBoard, lastHit[1], lastHit[2]) # {}
    /\ OpenNeighbours(playerBoard, lastHit[1], lastHit[2]) \subseteq Range(aiTargetQueue)
    /\ \E i \in 1 .. Len(timers) : timers[i].kind = "aiSelect"


\* After a reset the title screen is gone, and before the battle phase no
\* attack and no AI turn can be started: a callback that runs then was
\* scheduled before the reset, or by such a callback.
BeforeBattle == resets > 0 /\ gamePhase \in {"instructions", "placement"}

\* C34: the callbacks scheduled before a reset change nothing the reset
\* established: when one of them runs after the reset, boards, fleets, phase,
\* winner, turn owner, AI target queue and last-hit stay as they are.
C34_StaleCallbacksChangeNothing ==
    [][(BeforeBattle /\ TimerStep)
          => /\ UNCHANGED << playerBoard, aiBoard, playerShips, gamePhase, winner,
                             isPlayerTurn, aiTargetQueue, lastHit >>
             /\ aiShips' = aiShips]_vars
\* C35: the placements of the computer's ships handed to the presentation
\* hold sunk ships only, and they are the same for two boards on which the
\* sunk ships lie on the same cells, wherever the other ships lie.
C35_AiPlacementsShowSunkOnly ==
    probe.fn = "aiPlacements"
        => /\ \A k \in 1 .. Len(probe.out) :
                 probe.ships[FindIndex(probe.out[k].shipId)].sunk
           /\ probe.out = probe.outOther

\* C35 witness: aiPlacements was applied to two boards that differ in the
\* position of a ship still afloat, and shows the sunk ship.
C35_Witness ==
    /\ probe.fn = "aiPlacements"
    /\ probe.out # << >>
    /\ \E i \in ShipIdx :
          /\ ~probe.ships[i].sunk
          /\ CoordsOf(probe.board, SHIPS[i]) # {}
          /\ CoordsOf(probe.other, SHIPS[i]) # {}
          /\ CoordsOf(probe.board, SHIPS[i]) # CoordsOf(probe.other, SHIPS[i])
\* The ship lies on the board as one full width by length rectangle.
OnBoardAsRectangle(board, ship) ==
    \E x \in Cells, o \in Orientation :
        /\ Footprint(x[1], x[2], ship, o) \subseteq Cells
        /\ CoordsOf(board, ship) = Footprint(x[1], x[2], ship, o)

\* After currentShipIndex placements exactly the first currentShipIndex
\* roster ships are on the player's board.
FirstShipsPlaced ==
    \A k \in ShipIdx :
        IF k <= currentShipIndex
        THEN /\ OnBoardAsRectangle(playerBoard, SHIPS[k])
             /\ Cardinality(CoordsOf(playerBoard, SHIPS[k])) = SHIPS[k].size
        ELSE CoordsOf(playerBoard, SHIPS[k]) = {}

\* A click that places a ship during placement.
Places ==
    /\ gamePhase = "placement"
    /\ playerBoard' # playerBoard
    /\ \E x \in Cells : handlePlayerPlacement(x[1], x[2])

\* C36: during placement the human ships are committed in roster order and
\* each once: after k placements exactly the first k roster ships are on the
\* player's board, each as one full width by length rectangle of size
\* cells, and a placement puts the next roster ship on the board and leaves
\* the cells of the ships placed earlier as they were.
C36_PlacementInRosterOrder ==
    /\ [](gamePhase = "placement" => FirstShipsPlaced)
    /\ [][Places
            => /\ OnBoardAsRectangle(playerBoard', SHIPS[currentShipIndex + 1])
               /\ \A k \in 1 .. currentShipIndex :
                     \A x \in CoordsOf(playerBoard, SHIPS[k]) :
                         playerBoard'[x[1]][x[2]] = playerBoard[x[1]][x[2]]
               /\ \A k \in 1 .. currentShipIndex :
                     CoordsOf(playerBoard', SHIPS[k]) = CoordsOf(playerBoard, SHIPS[k])]_vars

\* The board that holds the first n recorded placements.
RECURSIVE BoardOfPlacements(_, _)
BoardOfPlacements(placements, n) ==
    IF n = 0 THEN EmptyBoard
    ELSE LET p == placements[n]
             ship == SHIPS[FindIndex(p.shipId)]
         IN  placeShip(BoardOfPlacements(placements, n - 1), p.startRow, p.startCol,
                       ship.width, ship.length, p.orientation, ship.id)

\* The recorded placements of a ship.
PlacementsOfShip(i) ==
    { k \in 1 .. Len(console.placements) : console.placements[k].shipId = SHIPS[i].id }

\* C37: PlacementConsole has called onPlacementComplete only if every ship
\* of its roster has exactly one recorded placement; the ship being dragged
\* has no recorded placement; and every recorded placement was accepted by
\* canPlaceShip against the board holding all earlier placements, the
\* console's board being the board of all of them.
C37_ConsoleCompletesWithWholeRoster ==
    app = 0
        => /\ console.completions > 0
                 => \A i \in ShipIdx : Cardinality(PlacementsOfShip(i)) = 1
           /\ \A i \in ShipIdx : Cardinality(PlacementsOfShip(i)) <= 1
           /\ console.dragState # NoDrag
                 => PlacementsOfShip(FindIndex(console.dragState.shipId)) = {}
           /\ \A k \in 1 .. Len(console.placements) :
                 LET p == console.placements[k]
                     ship == SHIPS[FindIndex(p.shipId)]
                 IN  /\ FindIndex(p.shipId) # 0
                     /\ canPlaceShip(BoardOfPlacements(console.placements, k - 1),
                                     p.startRow, p.startCol, ship.width, ship.length,
                                     p.orientation)
           /\ console.board = BoardOfPlacements(console.placements, Len(console.placements))

\* C37 witness: both ships of a roster of two have been dropped on the board
\* and onPlacementComplete has been called.
C37_Witness ==
    /\ app = 0
    /\ Len(SHIPS) = 2
    /\ console.completions = 1
    /\ Len(console.placements) = 2
    /\ console.placements[1].shipId # console.placements[2].shipId
====
